---- MODULE Spec2Model ----
(***************************************************************************)
(* Model of the smugit conflict engine: the hunk parser, the plugin        *)
(* registry and pipeline, the fallback strategies, the resolver loop and   *)
(* the `fix` command that drives them.                                     *)
(*                                                                         *)
(* Text is a sequence of characters.  The alphabet is small; each of the   *)
(* four seven-character marker runs is one character of the alphabet, so   *)
(* line.startsWith('<<<<<<<') is "the first character is LT7".             *)
(***************************************************************************)
EXTENDS Integers, Sequences, FiniteSets, TLC

VARIABLES
  input,               \* argument of the function under test (function specifications)
  output,              \* its result
  registry,            \* registry.ts: the Map's values in insertion order
  builtinsRegistered,  \* resolver.ts: module-level flag
  registrations,       \* number of external registrations so far
  constructed,         \* a ConflictResolver instance exists
  disk,                \* working tree: content of every conflicted file
  conflicted,          \* git status: the conflicted paths, in order
  opts,                \* the options of the fix command / the arguments of the call
  conflicts,           \* the conflicts handed to autoResolveConflicts
  manualReview,        \* the conflicts handed to handleInteractiveResolution
  pluginList,             \* the ordered plugin list of the current run
  idx,                   \* index of the next conflict of the loop
  result,              \* the ResolutionResult under construction
  resolveCalls,               \* history: the resolve() resolveCalls made, <<file, plugin>>
  events,              \* history: checkpoint, write and stage operations, in order
  staged,              \* the index: files added
  branch,              \* the checked-out branch
  pc                   \* position of the command / the call

vars == <<input, output, registry, builtinsRegistered, registrations, constructed, disk,
          conflicted, opts, conflicts, manualReview, pluginList, idx, result, resolveCalls, events,
          staged, branch, pc>>

resolverVars == <<registry, builtinsRegistered, registrations, constructed, disk,
                  conflicted, opts, conflicts, manualReview, pluginList, idx, result, resolveCalls,
                  events, staged, branch, pc>>

(***************************************************************************)
(* Characters and text primitives                                          *)
(***************************************************************************)
NL  == "\n"
SP  == " "
LT7 == "<<<<<<<"
BAR7 == "|||||||"
EQ7 == "======="
GT7 == ">>>>>>>"
TAB == "\t"
DOLLAR == "$"
AMP == "&"

startsWith(s, p) == Len(s) >= Len(p) /\ SubSeq(s, 1, Len(p)) = p

\* String.prototype.split('\n'): always at least one piece
splitLines(s) ==
  LET nl == {i \in 1..Len(s) : s[i] = NL}
      n  == Cardinality(nl)
      pos(k) == IF k = 0 THEN 0
                ELSE IF k = n + 1 THEN Len(s) + 1
                ELSE CHOOSE i \in nl : Cardinality({j \in nl : j < i}) = k - 1
  IN [k \in 1..(n + 1) |-> SubSeq(s, pos(k - 1) + 1, pos(k) - 1)]

RECURSIVE joinLines(_)
\* Array.prototype.join('\n'): the empty array gives the empty string
joinLines(ls) ==
  IF Len(ls) = 0 THEN <<>>
  ELSE IF Len(ls) = 1 THEN ls[1]
  ELSE ls[1] \o <<NL>> \o joinLines(Tail(ls))


\* the characters of the alphabet that the regular-expression class \s matches
isSpace(c) == c \in {SP, NL, TAB}

\* the characters that \d matches
Digits == {"1", "2", "3"}

\* the characters that \w matches; a keyword is one character of the
\* alphabet and stands for its run of letters
Keywords ==
  {"import", "from", "const", "require", "class", "function", "interface",
   "if", "else", "for", "while", "switch", "try", "catch", "async"}

WordChars == {"a", "b", "c", "x", "H", "T", "O", "_"} \cup Digits \cup Keywords

isWord(c) == c \in WordChars

\* the index of the first character at or after i that is not whitespace,
\* Len(s) + 1 when there is none
skipSpaces(s, i) ==
  LET rest == {j \in i..Len(s) : ~isSpace(s[j])}
  IN IF rest = {} THEN Len(s) + 1 ELSE CHOOSE j \in rest : \A m \in rest : j <= m

RECURSIVE trimStart(_)
trimStart(s) == IF Len(s) > 0 /\ isSpace(s[1]) THEN trimStart(Tail(s)) ELSE s

RECURSIVE trimEnd(_)
trimEnd(s) ==
  IF Len(s) > 0 /\ isSpace(s[Len(s)]) THEN trimEnd(SubSeq(s, 1, Len(s) - 1)) ELSE s

trim(s) == trimStart(trimEnd(s))

RECURSIVE collapseWhitespace(_)
\* s.replace(/\s+/g, ' ')
collapseWhitespace(s) ==
  IF Len(s) = 0 THEN <<>>
  ELSE IF isSpace(s[1]) THEN <<SP>> \o collapseWhitespace(trimStart(s))
  ELSE <<s[1]>> \o collapseWhitespace(Tail(s))

\* the first index at or after from where p occurs in s, 0 when there is none
indexOfFrom(s, p, from) ==
  LET hits == {i \in from..(Len(s) - Len(p) + 1) : SubSeq(s, i, i + Len(p) - 1) = p}
  IN IF hits = {} THEN 0 ELSE CHOOSE i \in hits : \A j \in hits : i <= j

includes(s, p) == indexOfFrom(s, p, 1) # 0

last(seq) == seq[Len(seq)]
(***************************************************************************)
(* GitAnalyzer.parseConflictHunks                                          *)
(***************************************************************************)
RECURSIVE collectBase(_, _, _)
\* inner loop of the base section: gathers lines up to the separator
collectBase(lines, i, baseLines) ==
  IF i <= Len(lines) /\ ~startsWith(lines[i], <<EQ7>>)
  THEN collectBase(lines, i + 1, Append(baseLines, lines[i]))
  ELSE [i |-> i, baseLines |-> baseLines]

RECURSIVE collectCurrent(_, _, _, _)
\* loop "collect current content (until separator)"; the i++ that closes the
\* loop body also runs after the base section has been gathered
collectCurrent(lines, i, cur, base) ==
  IF i <= Len(lines) /\ ~startsWith(lines[i], <<EQ7>>)
  THEN IF startsWith(lines[i], <<BAR7>>)
       THEN LET b == collectBase(lines, i + 1, <<>>)
            IN collectCurrent(lines, b.i + 1, cur, joinLines(b.baseLines))
       ELSE collectCurrent(lines, i + 1, Append(cur, lines[i]), base)
  ELSE [i |-> i, cur |-> cur, base |-> base]

RECURSIVE collectIncoming(_, _, _)
collectIncoming(lines, i, inc) ==
  IF i <= Len(lines) /\ ~startsWith(lines[i], <<GT7>>)
  THEN collectIncoming(lines, i + 1, Append(inc, lines[i]))
  ELSE [i |-> i, inc |-> inc]

RECURSIVE parseFrom(_, _, _)
\* outer loop; i is the 1-based index of the line under the cursor
parseFrom(lines, i, hunks) ==
  IF i > Len(lines) THEN hunks
  ELSE IF startsWith(lines[i], <<LT7>>)
  THEN LET c == collectCurrent(lines, i + 1, <<>>, <<>>)
       IN IF c.i <= Len(lines) /\ startsWith(lines[c.i], <<EQ7>>)
          THEN LET n == collectIncoming(lines, c.i + 1, <<>>)
               IN IF n.i <= Len(lines) /\ startsWith(lines[n.i], <<GT7>>)
                  THEN parseFrom(lines, n.i + 1,
                         Append(hunks,
                           [startLine |-> i,
                            endLine |-> n.i,
                            baseContent |-> c.base,
                            currentContent |-> joinLines(c.cur),
                            incomingContent |-> joinLines(n.inc),
                            conflictMarkers |->
                              [start |-> lines[i],
                               separator |-> lines[c.i],
                               end |-> lines[n.i]]]))
                  ELSE parseFrom(lines, n.i + 1, hunks)
          ELSE parseFrom(lines, c.i + 1, hunks)
  ELSE parseFrom(lines, i + 1, hunks)

\* faulty variant: the end of the file closes an open region
parseClosingAtEndOfFile(content) == parseFrom(Append(splitLines(content), <<GT7>>), 1, <<>>)

parseConflictHunks(content) == parseFrom(splitLines(content), 1, <<>>)



(***************************************************************************)
(* String.prototype.replace(new RegExp(escapeRegExp(start) + '[\s\S]*?' +  *)
(* escapeRegExp(end), 's'), replacement), as replaceConflictBlocks and     *)
(* applyFallbackStrategy use it.  escapeRegExp escapes every regular-      *)
(* expression metacharacter, so both markers match literally.              *)
(***************************************************************************)
\* the first match: leftmost start of the start-marker text after which the
\* end-marker text occurs, extended lazily to the first such occurrence
findConflictSpan(content, startMarker, endMarker) ==
  LET starts == {i \in 1..(Len(content) - Len(startMarker) + 1) :
                   /\ SubSeq(content, i, i + Len(startMarker) - 1) = startMarker
                   /\ indexOfFrom(content, endMarker, i + Len(startMarker)) # 0}
  IN IF starts = {} THEN [found |-> FALSE, from |-> 0, to |-> 0]
     ELSE LET p == CHOOSE i \in starts : \A j \in starts : i <= j
              q == indexOfFrom(content, endMarker, p + Len(startMarker))
          IN [found |-> TRUE, from |-> p, to |-> q + Len(endMarker) - 1]

RECURSIVE getSubstitution(_, _, _, _)
\* expansion of the replacement string: $$ is a dollar sign and $& the
\* matched text; the pattern has no capture group, so a $ before a digit
\* stands for itself.  (The two remaining forms, $ before a backquote or an
\* apostrophe, need characters the alphabet does not have.)
getSubstitution(replacement, matched, before, after) ==
  IF Len(replacement) = 0 THEN <<>>
  ELSE IF replacement[1] = DOLLAR /\ Len(replacement) >= 2 /\
          replacement[2] \in {DOLLAR, AMP}
  THEN (IF replacement[2] = DOLLAR THEN <<DOLLAR>> ELSE matched)
       \o getSubstitution(SubSeq(replacement, 3, Len(replacement)), matched, before, after)
  ELSE <<replacement[1]>> \o getSubstitution(Tail(replacement), matched, before, after)

replaceConflictSpan(content, startMarker, endMarker, replacement) ==
  LET m == findConflictSpan(content, startMarker, endMarker) IN
  IF ~m.found THEN content
  ELSE LET before == SubSeq(content, 1, m.from - 1)
           matched == SubSeq(content, m.from, m.to)
           after == SubSeq(content, m.to + 1, Len(content))
       IN before \o getSubstitution(replacement, matched, before, after) \o after

RECURSIVE replaceBlocksFrom(_, _, _, _)
\* the loop over conflict.hunks shared by replaceConflictBlocks and
\* applyFallbackStrategy; replacements[index] is the hunk's replacement
replaceBlocksFrom(content, hunks, k, replacements) ==
  IF k > Len(hunks) THEN content
  ELSE replaceBlocksFrom(
         replaceConflictSpan(content, hunks[k].conflictMarkers.start,
                             hunks[k].conflictMarkers.end, replacements[k]),
         hunks, k + 1, replacements)

\* content is what context.readFile returned for conflict.file
replaceConflictBlocks(content, hunks, replacements) ==
  replaceBlocksFrom(content, hunks, 1, replacements)

(***************************************************************************)
(* ConflictResolver.combineBothVersions and applyFallbackStrategy          *)
(***************************************************************************)
\* push(segment) of combineBothVersions: blank segments and segments whose
\* whitespace-normalized text was already seen are dropped
pushSegment(segments, segment) ==
  IF trim(segment) = <<>> THEN segments
  ELSE IF \E j \in 1..Len(segments) :
            trim(collapseWhitespace(segments[j].raw)) = trim(collapseWhitespace(segment))
       THEN segments
       ELSE Append(segments, [raw |-> segment, kept |-> trimEnd(segment)])

combineBothVersions(hunk) ==
  LET segs == pushSegment(pushSegment(<<>>, hunk.currentContent), hunk.incomingContent)
  IN joinLines([j \in 1..Len(segs) |-> segs[j].kept])

fallbackReplacement(hunk, strategy) ==
  CASE strategy = "incoming" -> hunk.incomingContent
    [] strategy = "current" -> hunk.currentContent
    [] strategy = "both" -> combineBothVersions(hunk)

\* content is what readFile returned for conflict.file
applyFallbackStrategy(content, hunks, strategy) ==
  replaceBlocksFrom(content, hunks, 1,
    [k \in 1..Len(hunks) |-> fallbackReplacement(hunks[k], strategy)])

(***************************************************************************)
(* Classification: conflict type, complexity, auto-resolvability           *)
(***************************************************************************)
ConflictTypes == {"content", "whitespace", "import", "structural", "semantic"}

ConflictComplexities == {"trivial", "simple", "moderate", "complex"}

isWhitespaceOnly(content1, content2) ==
  trim(collapseWhitespace(content1)) = trim(collapseWhitespace(content2))

\* complexPatterns.some(pattern => pattern.test(content))
hasComplexLogic(content) ==
  \/ \E i \in 1..Len(content) :
       /\ content[i] \in {"if", "else", "for", "while", "switch", "try", "catch"}
       /\ (i = 1 \/ ~isWord(content[i - 1]))
       /\ (i = Len(content) \/ ~isWord(content[i + 1]))
  \/ \E i \in 1..Len(content) :
       /\ content[i] = "function"
       /\ skipSpaces(content, i + 1) <= Len(content)
       /\ content[skipSpaces(content, i + 1)] = "("
  \/ \E i \in 1..(Len(content) - 1) :
       /\ content[i] = "=" /\ content[i + 1] = ">"
       /\ skipSpaces(content, i + 2) <= Len(content)
       /\ content[skipSpaces(content, i + 2)] = "{"
  \/ \E i \in 1..(Len(content) - 1) :
       /\ content[i] = "class" /\ isSpace(content[i + 1])
       /\ skipSpaces(content, i + 1) <= Len(content)
       /\ isWord(content[skipSpaces(content, i + 1)])
  \/ \E i \in 1..(Len(content) - 1) :
       content[i] = "async" /\ isSpace(content[i + 1])

analyzeConflictComplexity(currentContent, incomingContent) ==
  LET currentLines == Len(splitLines(currentContent))
      incomingLines == Len(splitLines(incomingContent))
      totalLines == IF currentLines >= incomingLines THEN currentLines ELSE incomingLines
  IN IF totalLines <= 1 \/ isWhitespaceOnly(currentContent, incomingContent) THEN "trivial"
     ELSE IF totalLines <= 5 /\ ~hasComplexLogic(currentContent) /\ ~hasComplexLogic(incomingContent)
     THEN "simple"
     ELSE IF totalLines <= 20 THEN "moderate"
     ELSE "complex"

\* faulty variant: the complexity of the first hunk stands for all
complexityOfFirstHunk(hunks) ==
  IF Len(hunks) = 0 THEN "trivial"
  ELSE analyzeConflictComplexity(hunks[1].currentContent, hunks[1].incomingContent)

determineOverallComplexity(hunks) ==
  LET complexities == {analyzeConflictComplexity(hunks[k].currentContent, hunks[k].incomingContent) :
                         k \in 1..Len(hunks)}
  IN IF Len(hunks) = 0 THEN "trivial"
     ELSE IF "complex" \in complexities THEN "complex"
     ELSE IF "moderate" \in complexities THEN "moderate"
     ELSE IF "simple" \in complexities THEN "simple"
     ELSE "trivial"

TRIVIAL_AUTO_TYPES == {"whitespace", "import", "structural"}

\* faulty variant: only trivial conflicts pass
isAutoResolvableTrivialOnly(type, complexity) ==
  complexity = "trivial" /\ type \in TRIVIAL_AUTO_TYPES

isAutoResolvable(type, complexity) ==
  IF complexity = "trivial" THEN type \in TRIVIAL_AUTO_TYPES
  ELSE IF complexity = "simple" /\ type \in {"whitespace", "import", "structural"} THEN TRUE
  ELSE FALSE

(***************************************************************************)
(* detectConflictType: the pattern                                         *)
(*   /<<<<<<< .*?\n(.*?)\n=======\n(.*?)\n>>>>>>> .*?\n/gs                 *)
(* Every quantifier is lazy and, with the s flag, the dot matches a line   *)
(* break too: a match from p takes the first line break n1 after the       *)
(* marker, the first "\n=======\n" at or after n1 + 1, the first           *)
(* "\n>>>>>>> " after that and the first line break after that.            *)
(***************************************************************************)
blockMatchAt(content, p) ==
  LET open == <<LT7, SP>>
      sep == <<NL, EQ7, NL>>
      close == <<NL, GT7, SP>>
      n1 == indexOfFrom(content, <<NL>>, p + Len(open))
      e1 == IF n1 = 0 THEN 0 ELSE indexOfFrom(content, sep, n1 + 1)
      g1 == IF e1 = 0 THEN 0 ELSE indexOfFrom(content, close, e1 + Len(sep))
      n2 == IF g1 = 0 THEN 0 ELSE indexOfFrom(content, <<NL>>, g1 + Len(close))
  IN IF p = 0 \/ p + Len(open) - 1 > Len(content) \/ SubSeq(content, p, p + Len(open) - 1) # open \/ n2 = 0
     THEN [found |-> FALSE, current |-> <<>>, incoming |-> <<>>, to |-> 0]
     ELSE [found |-> TRUE,
           current |-> SubSeq(content, n1 + 1, e1 - 1),
           incoming |-> SubSeq(content, e1 + Len(sep), g1 - 1),
           to |-> n2]

RECURSIVE conflictBlocksFrom(_, _, _)
\* content.match(.../gs): the successive non-overlapping matches
conflictBlocksFrom(content, from, blocks) ==
  LET cands == {p \in from..Len(content) : blockMatchAt(content, p).found} IN
  IF cands = {} THEN blocks
  ELSE LET p == CHOOSE i \in cands : \A j \in cands : i <= j
           m == blockMatchAt(content, p)
       IN conflictBlocksFrom(content, m.to + 1, Append(blocks, m))

detectConflictType(content) ==
  LET conflictBlocks == conflictBlocksFrom(content, 1, <<>>) IN
  IF includes(content, <<"import", SP>>) \/ includes(content, <<"require", "(">>) THEN "import"
  ELSE IF Len(conflictBlocks) > 0 /\
          \A k \in 1..Len(conflictBlocks) :
             trim(collapseWhitespace(conflictBlocks[k].current)) =
             trim(collapseWhitespace(conflictBlocks[k].incoming))
  THEN "whitespace"
  ELSE IF includes(content, <<"class", SP>>) \/ includes(content, <<"function", SP>>) \/
          includes(content, <<"interface", SP>>)
  THEN "structural"
  ELSE "content"

(***************************************************************************)
(* Builtin plugins: whitespace-normalizer                                  *)
(***************************************************************************)
RECURSIVE expandTabs(_)
\* .replace(/\t/g, '  ')
expandTabs(s) ==
  IF Len(s) = 0 THEN <<>>
  ELSE IF s[1] = TAB THEN <<SP, SP>> \o expandTabs(Tail(s))
  ELSE <<s[1]>> \o expandTabs(Tail(s))

RECURSIVE stripTrailingSpaces(_)
stripTrailingSpaces(line) ==
  IF Len(line) > 0 /\ line[Len(line)] = SP
  THEN stripTrailingSpaces(SubSeq(line, 1, Len(line) - 1))
  ELSE line

\* .replace(/[ ]+$/gm, ''): with the m flag $ is the end of every line
stripLineEnds(s) ==
  LET ls == splitLines(s)
  IN joinLines([k \in 1..Len(ls) |-> stripTrailingSpaces(ls[k])])

\* the length of the run of line breaks at the head of s
RECURSIVE newlineRun(_)
newlineRun(s) == IF Len(s) > 0 /\ s[1] = NL THEN 1 + newlineRun(Tail(s)) ELSE 0

RECURSIVE collapseBlankLines(_)
\* .replace(/\n{3,}/g, '\n\n')
collapseBlankLines(s) ==
  IF Len(s) = 0 THEN <<>>
  ELSE IF s[1] = NL
  THEN LET n == newlineRun(s)
       IN (IF n >= 3 THEN <<NL, NL>> ELSE SubSeq(s, 1, n))
          \o collapseBlankLines(SubSeq(s, n + 1, Len(s)))
  ELSE <<s[1]>> \o collapseBlankLines(Tail(s))

normalizeWhitespace(content) == collapseBlankLines(stripLineEnds(expandTabs(content)))

(***************************************************************************)
(* Builtin plugins: import-merge                                           *)
(***************************************************************************)
RECURSIVE selectSeq2(_, _)
\* Array.prototype.filter with the predicate given as the set of kept values
selectSeq2(s, keep) ==
  IF Len(s) = 0 THEN <<>>
  ELSE IF s[1] \in keep THEN <<s[1]>> \o selectSeq2(Tail(s), keep)
  ELSE selectSeq2(Tail(s), keep)

isImportLine(trimmed) ==
  \/ startsWith(trimmed, <<"import", SP>>)
  \/ (startsWith(trimmed, <<"const", SP>>) /\ includes(trimmed, <<"require", "(">>))

extractImports(content) ==
  LET ls == splitLines(content)
      trimmed == [k \in 1..Len(ls) |-> trim(ls[k])]
  IN selectSeq2(trimmed, {trimmed[k] : k \in {j \in 1..Len(ls) : isImportLine(trimmed[j])}})

RECURSIVE mergeImportsFrom(_, _)
\* keeps the first occurrence of every whitespace-normalized import
mergeImportsFrom(all, merged) ==
  IF Len(all) = 0 THEN merged
  ELSE LET normalized == trim(collapseWhitespace(all[1])) IN
       IF \E j \in 1..Len(merged) : trim(collapseWhitespace(merged[j])) = normalized
       THEN mergeImportsFrom(Tail(all), merged)
       ELSE mergeImportsFrom(Tail(all), Append(merged, all[1]))

mergeImports(current, incoming) == mergeImportsFrom(current \o incoming, <<>>)

\* the letters a keyword stands for, for collation
spell(c) ==
  CASE c = "import" -> <<"i", "m", "p", "o", "r", "t">>
    [] c = "from" -> <<"f", "r", "o", "m">>
    [] c = "const" -> <<"c", "o", "n", "s", "t">>
    [] c = "require" -> <<"r", "e", "q", "u", "i", "r", "e">>
    [] c = "class" -> <<"c", "l", "a", "s", "s">>
    [] c = "function" -> <<"f", "u", "n", "c", "t", "i", "o", "n">>
    [] c = "interface" -> <<"i", "n", "t", "e", "r", "f", "a", "c", "e">>
    [] c = "if" -> <<"i", "f">>
    [] c = "else" -> <<"e", "l", "s", "e">>
    [] c = "for" -> <<"f", "o", "r">>
    [] c = "while" -> <<"w", "h", "i", "l", "e">>
    [] c = "switch" -> <<"s", "w", "i", "t", "c", "h">>
    [] c = "try" -> <<"t", "r", "y">>
    [] c = "catch" -> <<"c", "a", "t", "c", "h">>
    [] c = "async" -> <<"a", "s", "y", "n", "c">>
    [] c = LT7 -> <<"<", "<", "<", "<", "<", "<", "<">>
    [] c = GT7 -> <<">", ">", ">", ">", ">", ">", ">">>
    [] c = EQ7 -> <<"=", "=", "=", "=", "=", "=", "=">>
    [] c = BAR7 -> <<"|", "|", "|", "|", "|", "|", "|">>
    [] c = "H" -> <<"h">>
    [] c = "T" -> <<"t">>
    [] c = "O" -> <<"o">>
    [] OTHER -> <<c>>

RECURSIVE spellAll(_)
spellAll(s) == IF Len(s) = 0 THEN <<>> ELSE spell(s[1]) \o spellAll(Tail(s))

\* primary collation order of the characters: whitespace, punctuation,
\* symbols, digits, letters
CollationOrder ==
  <<TAB, NL, SP, "_", "-", ",", ":", ".", "\"", "(", ")", "{", "}", "*", "/", "&", "+",
    "<", "=", ">", "|", "$", "1", "2", "3",
    "a", "b", "c", "d", "e", "f", "g", "h", "i", "j", "k", "l", "m",
    "n", "o", "p", "q", "r", "s", "t", "u", "v", "w", "x", "y", "z">>

rank(c) == CHOOSE i \in 1..Len(CollationOrder) : CollationOrder[i] = c

RECURSIVE lexLess(_, _)
lexLess(a, b) ==
  IF Len(b) = 0 THEN FALSE
  ELSE IF Len(a) = 0 THEN TRUE
  ELSE IF a[1] = b[1] THEN lexLess(Tail(a), Tail(b))
  ELSE rank(a[1]) < rank(b[1])

\* a.localeCompare(b) < 0
localeLess(a, b) == lexLess(spellAll(a), spellAll(b))

isExternalImport(a) == ~includes(a, <<".", "/">>) /\ ~includes(a, <<".", ".", "/">>)

\* the comparator of sortImports is negative
importBefore(a, b) ==
  IF isExternalImport(a) /\ ~isExternalImport(b) THEN TRUE
  ELSE IF ~isExternalImport(a) /\ isExternalImport(b) THEN FALSE
  ELSE localeLess(a, b)

RECURSIVE insertImport(_, _)
\* stable insertion: x goes after every element it is not before
insertImport(sorted, x) ==
  IF Len(sorted) = 0 THEN <<x>>
  ELSE IF importBefore(x, sorted[1]) THEN <<x>> \o sorted
  ELSE <<sorted[1]>> \o insertImport(Tail(sorted), x)

RECURSIVE sortImportsFrom(_, _)
sortImportsFrom(imports, sorted) ==
  IF Len(imports) = 0 THEN sorted
  ELSE sortImportsFrom(Tail(imports), insertImport(sorted, imports[1]))

sortImports(imports) == sortImportsFrom(imports, <<>>)

importReplacement(hunk) ==
  joinLines(sortImports(mergeImports(extractImports(hunk.currentContent),
                                     extractImports(hunk.incomingContent))))

(***************************************************************************)
(* Builtin plugins: simple-content-merge                                   *)
(***************************************************************************)
\* the non-blank trimmed lines: lines.map(line => line.trim()).filter(Boolean)
meaningfulLines(lines) == {trim(lines[k]) : k \in 1..Len(lines)} \ {<<>>}

isSubsetLines(source, target) == meaningfulLines(source) \subseteq meaningfulLines(target)

\* the length of the run of digits at the head of s
RECURSIVE digitRun(_)
digitRun(s) == IF Len(s) > 0 /\ s[1] \in Digits THEN 1 + digitRun(Tail(s)) ELSE 0

\* /^\s*(?:[-*+]|\d+\.)\s+/ tested on a trimmed line
matchesBullet(trimmed) ==
  LET d == digitRun(trimmed) IN
  \/ Len(trimmed) >= 2 /\ trimmed[1] \in {"-", "*", "+"} /\ isSpace(trimmed[2])
  \/ d >= 1 /\ Len(trimmed) >= d + 2 /\ trimmed[d + 1] = "." /\ isSpace(trimmed[d + 2])

isLikelyList(lines) ==
  /\ \A k \in 1..Len(lines) : trim(lines[k]) # <<>> => matchesBullet(trim(lines[k]))
  /\ \E k \in 1..Len(lines) : trim(lines[k]) # <<>>

RECURSIVE mergeListFrom(_, _)
\* pushLine over current's then incoming's lines: blank lines are always
\* kept, a line whose trimmed text was seen is dropped
mergeListFrom(all, merged) ==
  IF Len(all) = 0 THEN merged
  ELSE IF trim(all[1]) = <<>> THEN mergeListFrom(Tail(all), Append(merged, [raw |-> all[1], blank |-> TRUE]))
  ELSE IF \E j \in 1..Len(merged) : ~merged[j].blank /\ trim(merged[j].raw) = trim(all[1])
  THEN mergeListFrom(Tail(all), merged)
  ELSE mergeListFrom(Tail(all), Append(merged, [raw |-> all[1], blank |-> FALSE]))

mergeListLines(currentLines, incomingLines) ==
  LET merged == mergeListFrom(currentLines \o incomingLines, <<>>)
  IN joinLines([j \in 1..Len(merged) |->
                  IF merged[j].blank THEN merged[j].raw ELSE trimEnd(merged[j].raw)])

isKeyChar(c) == isWord(c) \/ c \in {".", "-"}

\* the length of the run of [\w.-] at the head of s
RECURSIVE keyRun(_)
keyRun(s) == IF Len(s) > 0 /\ isKeyChar(s[1]) THEN 1 + keyRun(Tail(s)) ELSE 0

skipQuote(line, i) == IF i <= Len(line) /\ line[i] = "\"" THEN i + 1 ELSE i

\* the key is line[b..b+n-1] and e is the place of the separator
keySeparator(line, b, n, e) ==
  IF n >= 1 /\ e <= Len(line) /\ line[e] \in {":", "="}
  THEN [len |-> skipSpaces(line, e + 1) - 1, key |-> SubSeq(line, b, b + n - 1)]
  ELSE [len |-> 0, key |-> <<>>]

keyEnd(line, b, n) == keySeparator(line, b, n, skipSpaces(line, skipQuote(line, b + n)))

keyStart(line, b) == keyEnd(line, b, keyRun(SubSeq(line, b, Len(line))))

\* /^(\s*["']?[\w.-]+["']?\s*[:=]\s*)/ : the length of the matched prefix and
\* the key inside it, 0 when the line does not match
keyValuePrefix(line) == keyStart(line, skipQuote(line, skipSpaces(line, 1)))

\* kvPattern.test(trimmed)
matchesKeyValue(trimmed) == keyValuePrefix(trimmed).len > 0

isKeyValueBlock(lines) ==
  /\ \A k \in 1..Len(lines) : trim(lines[k]) # <<>> => matchesKeyValue(trim(lines[k]))
  /\ \E k \in 1..Len(lines) : trim(lines[k]) # <<>>

\* the value of the text after the prefix: the shortest text that leaves
\* only whitespace, one optional comma and whitespace
valueOf(t) == IF Len(t) > 0 /\ t[Len(t)] = "," THEN trimEnd(SubSeq(t, 1, Len(t) - 1)) ELSE t

parsedLine(line, p, rest, value) ==
  IF p.len = 0 THEN [ok |-> FALSE, key |-> <<>>]
  ELSE [ok |-> TRUE,
        key |-> p.key,
        prefix |-> SubSeq(line, 1, p.len),
        value |-> value,
        suffix |-> SubSeq(rest, Len(value) + 1, Len(rest)),
        line |-> line,
        raw |-> FALSE]

parseWithPrefix(line, p) ==
  parsedLine(line, p, SubSeq(line, p.len + 1, Len(line)),
             valueOf(trimEnd(SubSeq(line, p.len + 1, Len(line)))))

\* /^(prefix)(.*?)(\s*,?\s*)$/
parseKeyValueLine(line) == parseWithPrefix(line, keyValuePrefix(line))

rawEntry(line) ==
  [ok |-> TRUE, key |-> <<>>, prefix |-> <<>>, value |-> <<>>, suffix |-> <<>>,
   line |-> line, raw |-> TRUE]

\* faulty variant: a known key keeps the entry it had
processLineKeepingFirst(st, line, parsed, preferIncoming) ==
  IF trim(line) = <<>> THEN [st EXCEPT !.order = Append(@, rawEntry(line))]
  ELSE IF ~parsed.ok THEN [st EXCEPT !.ok = FALSE]
  ELSE IF \A j \in 1..Len(st.order) : st.order[j].raw \/ st.order[j].key # parsed.key
  THEN [st EXCEPT !.order = Append(@, parsed)]
  ELSE st

\* processLine: st.order lists the entries in insertion order, a later
\* entry of a known key replaces the value when preferIncoming
processLine(st, line, parsed, preferIncoming) ==
  IF trim(line) = <<>> THEN [st EXCEPT !.order = Append(@, rawEntry(line))]
  ELSE IF ~parsed.ok THEN [st EXCEPT !.ok = FALSE]
  ELSE IF \A j \in 1..Len(st.order) : st.order[j].raw \/ st.order[j].key # parsed.key
  THEN [st EXCEPT !.order = Append(@, parsed)]
  ELSE IF preferIncoming
  THEN [st EXCEPT !.order = [j \in 1..Len(@) |->
                              IF ~@[j].raw /\ @[j].key = parsed.key THEN parsed ELSE @[j]]]
  ELSE st

RECURSIVE processLines(_, _, _)
\* lines.forEach(line => processLine(line, preferIncoming)), stopped by failed
processLines(lines, preferIncoming, st) ==
  IF ~st.ok \/ Len(lines) = 0 THEN st
  ELSE processLines(Tail(lines), preferIncoming,
                    processLine(st, lines[1], parseKeyValueLine(lines[1]), preferIncoming))

endsWithComma(s) == Len(trim(s)) > 0 /\ last(trim(s)) = ","

\* suffix.replace(/,\s*$/, '') for a suffix whose trimmed text ends with a comma
dropTrailingComma(s) == SubSeq(trimEnd(s), 1, Len(trimEnd(s)) - 1)

\* the suffix an entry is written with: in JSON style every structured
\* entry but the last ends with a comma and the last does not
suffixOf(entry, isLast, isJsonStyle) ==
  IF ~isJsonStyle THEN entry.suffix
  ELSE IF ~isLast /\ ~endsWithComma(entry.suffix) THEN trimEnd(entry.suffix) \o <<",">>
  ELSE IF isLast /\ endsWithComma(entry.suffix) THEN dropTrailingComma(entry.suffix)
  ELSE entry.suffix

lastStructured(order) ==
  IF \A j \in 1..Len(order) : order[j].raw THEN 0
  ELSE CHOOSE j \in 1..Len(order) :
         ~order[j].raw /\ \A m \in 1..Len(order) : ~order[m].raw => m <= j

renderEntries(order, lastAt, isJsonStyle) ==
  joinLines([j \in 1..Len(order) |->
               IF order[j].raw THEN order[j].line
               ELSE trimEnd(order[j].prefix \o order[j].value
                              \o suffixOf(order[j], j = lastAt, isJsonStyle))])

mergedEntries(st) ==
  IF ~st.ok THEN [ok |-> FALSE, text |-> <<>>]
  ELSE [ok |-> TRUE,
        text |-> renderEntries(st.order, lastStructured(st.order),
                   \E j \in 1..Len(st.order) :
                      ~st.order[j].raw /\ includes(st.order[j].prefix, <<"\"">>))]

mergeKeyValueLines(currentLines, incomingLines) ==
  mergedEntries(processLines(incomingLines, TRUE,
                  processLines(currentLines, FALSE, [ok |-> TRUE, order |-> <<>>])))

replacementOf(hunk, trimmedCurrent, trimmedIncoming, currentLines, incomingLines) ==
  IF trimmedCurrent = <<>> /\ trimmedIncoming = <<>> THEN [ok |-> TRUE, text |-> <<>>]
  ELSE IF trimmedCurrent = <<>> THEN [ok |-> TRUE, text |-> hunk.incomingContent]
  ELSE IF trimmedIncoming = <<>> THEN [ok |-> TRUE, text |-> hunk.currentContent]
  ELSE IF trimmedCurrent = trimmedIncoming THEN [ok |-> TRUE, text |-> hunk.currentContent]
  ELSE IF normalizeWhitespace(trimmedCurrent) = normalizeWhitespace(trimmedIncoming)
  THEN [ok |-> TRUE, text |-> normalizeWhitespace(hunk.currentContent)]
  ELSE IF isSubsetLines(currentLines, incomingLines) THEN [ok |-> TRUE, text |-> joinLines(incomingLines)]
  ELSE IF isSubsetLines(incomingLines, currentLines) THEN [ok |-> TRUE, text |-> joinLines(currentLines)]
  ELSE IF isLikelyList(currentLines) /\ isLikelyList(incomingLines)
  THEN [ok |-> TRUE, text |-> mergeListLines(currentLines, incomingLines)]
  ELSE IF isKeyValueBlock(currentLines) /\ isKeyValueBlock(incomingLines)
  THEN mergeKeyValueLines(currentLines, incomingLines)
  ELSE [ok |-> FALSE, text |-> <<>>]

\* string | undefined: ok is FALSE for undefined
computeContentReplacement(hunk) ==
  replacementOf(hunk, trim(hunk.currentContent), trim(hunk.incomingContent),
                splitLines(hunk.currentContent), splitLines(hunk.incomingContent))

simplePattern(trimmedCurrent, trimmedIncoming, currentLines, incomingLines) ==
  \/ trimmedCurrent = <<>> \/ trimmedIncoming = <<>>
  \/ trimmedCurrent = trimmedIncoming
  \/ collapseWhitespace(trimmedCurrent) = collapseWhitespace(trimmedIncoming)
  \/ isSubsetLines(currentLines, incomingLines) \/ isSubsetLines(incomingLines, currentLines)
  \/ (isLikelyList(currentLines) /\ isLikelyList(incomingLines))
  \/ (isKeyValueBlock(currentLines) /\ isKeyValueBlock(incomingLines))

\* GitAnalyzer.isSimpleContentPattern
isSimpleContentPattern(hunk) ==
  simplePattern(trim(hunk.currentContent), trim(hunk.incomingContent),
                splitLines(hunk.currentContent), splitLines(hunk.incomingContent))

canAutoResolveContent(hunks) == \A k \in 1..Len(hunks) : isSimpleContentPattern(hunks[k])

fileConflict(filePath, type, hunks, complexity) ==
  [file |-> filePath,
   type |-> type,
   hunks |-> hunks,
   complexity |-> complexity,
   autoResolvable |->
     (\/ isAutoResolvable(type, complexity)
      \/ IF type = "content" /\ complexity # "complex" THEN canAutoResolveContent(hunks)
         ELSE FALSE)]

analyzeHunks(filePath, content, hunks) ==
  fileConflict(filePath, detectConflictType(content), hunks, determineOverallComplexity(hunks))

\* GitAnalyzer.analyzeFileConflict; content is what fs.readFile returned
analyzeFileConflict(filePath, content) ==
  analyzeHunks(filePath, content, parseConflictHunks(content))

(***************************************************************************)
(* Plugin registry (registry.ts).  The Map is the sequence of its values   *)
(* in insertion order; a plugin is                                         *)
(*   [name, priority, kind, types, behaviour]                              *)
(* where kind names a builtin implementation or "external", and an         *)
(* external plugin supports the conflict types in `types` and, on resolve, *)
(* returns content, returns null ("declined") or raises ("throws").        *)
(***************************************************************************)
NoPriority == 0 - 1

DefaultPriority == 100

whitespacePlugin ==
  [name |-> "whitespace-normalizer", priority |-> 10, kind |-> "whitespace",
   types |-> {"whitespace"}, behaviour |-> "content"]

importPlugin ==
  [name |-> "import-merge", priority |-> 20, kind |-> "import",
   types |-> {"import"}, behaviour |-> "content"]

simpleContentPlugin ==
  [name |-> "simple-content-merge", priority |-> 30, kind |-> "simple-content",
   types |-> {"content"}, behaviour |-> "content"]

builtinPlugins == <<whitespacePlugin, importPlugin, simpleContentPlugin>>

\* Map.prototype.set: a known key keeps its place and takes the new value
registerConflictResolutionPlugin(reg, plugin) ==
  IF \E j \in 1..Len(reg) : reg[j].name = plugin.name
  THEN [j \in 1..Len(reg) |-> IF reg[j].name = plugin.name THEN plugin ELSE reg[j]]
  ELSE Append(reg, plugin)

priorityOf(plugin) == IF plugin.priority = NoPriority THEN DefaultPriority ELSE plugin.priority

RECURSIVE insertByPriority(_, _)
insertByPriority(sorted, p) ==
  IF Len(sorted) = 0 THEN <<p>>
  ELSE IF priorityOf(p) < priorityOf(sorted[1]) THEN <<p>> \o sorted
  ELSE <<sorted[1]>> \o insertByPriority(Tail(sorted), p)

RECURSIVE sortByPriority(_, _)
sortByPriority(reg, sorted) ==
  IF Len(reg) = 0 THEN sorted
  ELSE sortByPriority(Tail(reg), insertByPriority(sorted, reg[1]))

\* faulty variant: the plugins in registration order, the sort left out
getPluginsUnsorted(reg) == reg

\* Array.from(registry.values()).sort(...): a stable sort on the priority
getConflictResolutionPlugins(reg) == sortByPriority(reg, <<>>)

RECURSIVE registerAll(_, _)
registerAll(reg, ps) ==
  IF Len(ps) = 0 THEN reg
  ELSE registerAll(registerConflictResolutionPlugin(reg, ps[1]), Tail(ps))

(***************************************************************************)
(* Plugins: supports and resolve                                           *)
(***************************************************************************)
supports(plugin, conflict) ==
  CASE plugin.kind = "whitespace" -> conflict.type = "whitespace"
    [] plugin.kind = "import" -> conflict.type = "import"
    [] plugin.kind = "simple-content" ->
         /\ conflict.type = "content"
         /\ conflict.complexity # "complex"
         /\ \A k \in 1..Len(conflict.hunks) : computeContentReplacement(conflict.hunks[k]).ok
    [] OTHER -> conflict.type \in plugin.types

\* the replacement of every hunk, as the plugin's replacer computes it
pluginReplacements(plugin, conflict) ==
  [k \in 1..Len(conflict.hunks) |->
     CASE plugin.kind = "whitespace" -> normalizeWhitespace(conflict.hunks[k].incomingContent)
       [] plugin.kind = "import" -> importReplacement(conflict.hunks[k])
       [] plugin.kind = "simple-content" -> computeContentReplacement(conflict.hunks[k]).text]

pluginNotes(plugin) ==
  CASE plugin.kind = "whitespace" -> <<"Normalized whitespace differences">>
    [] plugin.kind = "import" -> <<"Merged and sorted import statements">>
    [] plugin.kind = "simple-content" -> <<"Merged compatible content blocks">>
    [] OTHER -> <<>>

\* plugin.resolve(conflict, context): read is [ok, content], the outcome of
\* context.readFile(conflict.file).  A builtin reads the file first and
\* raises when the read does; simple-content-merge also raises when a hunk
\* has no replacement.  An external plugin's content is its own name.
resolve(plugin, conflict, read) ==
  IF plugin.kind = "external"
  THEN CASE plugin.behaviour = "content" ->
              [kind |-> "resolved", content |-> <<plugin.name>>, notes |-> <<>>, cause |-> "none"]
         [] plugin.behaviour = "declined" ->
              [kind |-> "declined", content |-> <<>>, notes |-> <<>>, cause |-> "none"]
         [] plugin.behaviour = "throws" ->
              [kind |-> "throws", content |-> <<>>, notes |-> <<>>, cause |-> "plugin"]
  ELSE IF ~read.ok
  THEN [kind |-> "throws", content |-> <<>>, notes |-> <<>>, cause |-> "read"]
  ELSE IF plugin.kind = "simple-content" /\
          \E k \in 1..Len(conflict.hunks) : ~computeContentReplacement(conflict.hunks[k]).ok
  THEN [kind |-> "throws", content |-> <<>>, notes |-> <<>>, cause |-> "plugin"]
  ELSE [kind |-> "resolved",
        content |-> replaceConflictBlocks(read.content, conflict.hunks,
                                          pluginReplacements(plugin, conflict)),
        notes |-> pluginNotes(plugin),
        cause |-> "none"]

noPluginOutcome(calls) ==
  [kind |-> "none", content |-> <<>>, plugin |-> "none", notes |-> <<>>,
   cause |-> "none", calls |-> calls]

pluginOutcomeOf(plugin, resolution, calls) ==
  [kind |-> resolution.kind, content |-> resolution.content,
   plugin |-> plugin.name, notes |-> resolution.notes,
   cause |-> resolution.cause, calls |-> Append(calls, plugin.name)]

RECURSIVE runPluginsFrom(_, _, _, _, _)
RECURSIVE afterResolve(_, _, _, _, _, _)
\* ConflictResolver.runPlugins: calls lists the plugins whose resolve ran
runPluginsFrom(conflict, plugins, j, read, calls) ==
  IF j > Len(plugins) THEN noPluginOutcome(calls)
  ELSE IF ~supports(plugins[j], conflict)
  THEN runPluginsFrom(conflict, plugins, j + 1, read, calls)
  ELSE afterResolve(conflict, plugins, j, read, calls, resolve(plugins[j], conflict, read))

\* if (resolution) return ...; a plugin that raises ends the walk as well
afterResolve(conflict, plugins, j, read, calls, resolution) ==
  IF resolution.kind = "declined"
  THEN runPluginsFrom(conflict, plugins, j + 1, read, Append(calls, plugins[j].name))
  ELSE pluginOutcomeOf(plugins[j], resolution, calls)

runPlugins(conflict, plugins, read) == runPluginsFrom(conflict, plugins, 1, read, <<>>)

(***************************************************************************)
(* ConflictResolver.autoResolveConflicts: one iteration of the loop        *)
(***************************************************************************)
NotRun == [done |-> FALSE, value |-> <<>>]

EmptyResult ==
  [success |-> TRUE, resolvedFiles |-> <<>>, failedFiles |-> <<>>, errors |-> <<>>,
   fallbackApplied |-> <<>>, warnings |-> <<>>, notes |-> <<>>, resolvedBy |-> <<>>]

isTruthy(text) == Len(text) > 0

\* faulty variant: the file is recorded as failed but success stays as it was
recordNoMatchKeepingSuccess(res, file) ==
  [res EXCEPT !.failedFiles = Append(@, file),
              !.errors = Append(@, [kind |-> "nomatch", file |-> file, cause |-> "none"])]

\* result.failedFiles.push / errors.push('No automated strategy matched') /
\* success = false
recordNoMatch(res, file) ==
  [res EXCEPT !.failedFiles = Append(@, file),
              !.errors = Append(@, [kind |-> "nomatch", file |-> file, cause |-> "none"]),
              !.success = FALSE]

\* faulty variant: the error is recorded but the file is not
recordFailureWithoutFile(res, file, cause) ==
  [res EXCEPT !.errors = Append(@, [kind |-> "failed", file |-> file, cause |-> cause]),
              !.success = FALSE]

\* the catch block: cause is what was raised (a plugin's error, the read
\* error or the write error), which the message embeds
recordFailure(res, file, cause) ==
  [res EXCEPT !.failedFiles = Append(@, file),
              !.errors = Append(@, [kind |-> "failed", file |-> file, cause |-> cause]),
              !.success = FALSE]

recordPluginResolution(res, file, pluginName, notes) ==
  [res EXCEPT !.resolvedFiles = Append(@, file),
              !.resolvedBy = Append(@, [file |-> file, plugin |-> pluginName, notes |-> notes]),
              !.notes = @ \o [n \in 1..Len(notes) |-> [file |-> file, note |-> notes[n]]]]

\* faulty variant: a fallback resolution without its warning
recordFallbackWithoutWarning(res, file, strategy) ==
  [res EXCEPT !.resolvedFiles = Append(@, file),
              !.fallbackApplied = Append(@, [file |-> file, strategy |-> strategy])]

recordFallback(res, file, strategy) ==
  [res EXCEPT !.resolvedFiles = Append(@, file),
              !.fallbackApplied = Append(@, [file |-> file, strategy |-> strategy]),
              !.warnings = Append(@, [file |-> file, strategy |-> strategy])]

\* const fallbackStrategy = fallback === 'none' ? undefined : fallback
Undefined == "undefined"

\* faulty variant: 'none' falls back to the default strategy
fallbackStrategyDefaulted(fallback) == IF fallback = "none" THEN "incoming" ELSE fallback

fallbackStrategyOf(fallback) == IF fallback = "none" THEN Undefined ELSE fallback

\* the value of one iteration: the new result, whether the file was written
\* and with what, the plugins whose resolve ran and whether
\* applyFallbackStrategy ran
iteration(res, written, content, calls, fallbackRan) ==
  [result |-> res, written |-> written, content |-> content, calls |-> calls,
   fallbackRan |-> fallbackRan]

\* if (fallbackStrategy) { ... } of the loop body, reached when no plugin
\* resolved the conflict
fallbackBranch(res, conflict, dryRun, fallbackStrategy, read, writeOk, calls, fallbackContent) ==
  IF fallbackStrategy = Undefined
  THEN iteration(recordNoMatch(res, conflict.file), FALSE, <<>>, calls, FALSE)
  ELSE IF ~read.ok
  THEN iteration(recordFailure(res, conflict.file, "read"), FALSE, <<>>, calls, TRUE)
  ELSE IF ~isTruthy(fallbackContent)
  THEN iteration(recordNoMatch(res, conflict.file), FALSE, <<>>, calls, TRUE)
  ELSE IF ~dryRun /\ ~writeOk
  THEN iteration(recordFailure(res, conflict.file, "write"), FALSE, <<>>, calls, TRUE)
  ELSE iteration(recordFallback(res, conflict.file, fallbackStrategy), ~dryRun,
                 fallbackContent, calls, TRUE)

\* faulty variant: a plugin that raises is passed over and the fallback
\* strategy takes the conflict
pluginBranchFallingBack(res, conflict, dryRun, fallbackStrategy, read, writeOk, pluginOutcome) ==
  IF pluginOutcome.kind = "resolved"
  THEN IF ~dryRun /\ ~writeOk
       THEN iteration(recordFailure(res, conflict.file, "write"), FALSE, <<>>,
                      pluginOutcome.calls, FALSE)
       ELSE iteration(recordPluginResolution(res, conflict.file, pluginOutcome.plugin,
                                             pluginOutcome.notes),
                      ~dryRun, pluginOutcome.content, pluginOutcome.calls, FALSE)
  ELSE fallbackBranch(res, conflict, dryRun, fallbackStrategy, read, writeOk,
                      pluginOutcome.calls,
                      applyFallbackStrategy(read.content, conflict.hunks, fallbackStrategy))

\* the loop body after runPlugins
pluginBranch(res, conflict, dryRun, fallbackStrategy, read, writeOk, pluginOutcome) ==
  IF pluginOutcome.kind = "throws"
  THEN iteration(recordFailure(res, conflict.file, pluginOutcome.cause), FALSE, <<>>,
                 pluginOutcome.calls, FALSE)
  ELSE IF pluginOutcome.kind = "resolved"
  THEN IF ~dryRun /\ ~writeOk
       THEN iteration(recordFailure(res, conflict.file, "write"), FALSE, <<>>,
                      pluginOutcome.calls, FALSE)
       ELSE iteration(recordPluginResolution(res, conflict.file, pluginOutcome.plugin,
                                             pluginOutcome.notes),
                      ~dryRun, pluginOutcome.content, pluginOutcome.calls, FALSE)
  ELSE fallbackBranch(res, conflict, dryRun, fallbackStrategy, read, writeOk,
                      pluginOutcome.calls,
                      applyFallbackStrategy(read.content, conflict.hunks, fallbackStrategy))

\* the body of the for loop for one conflict.  read is the outcome of
\* readFile(conflict.file), writeOk that of writeResolvedFile.
resolveConflict(res, conflict, plugins, dryRun, fallback, read, writeOk) ==
  pluginBranch(res, conflict, dryRun, fallbackStrategyOf(fallback), read, writeOk,
               runPlugins(conflict, plugins, read))

(***************************************************************************)
(* The working tree                                                        *)
(***************************************************************************)
MaxConflicts == 2

FileNames == <<"a.ts", "b.ts", "c.ts", "d.ts">>

MainBranch == "main"

CheckpointBranch == "smugit-checkpoint"

\* a whitespace-only conflict
TextWhitespace ==
  joinLines(<< <<LT7, SP, "H">>, <<"a", SP, SP, "b">>, <<EQ7>>, <<"a", SP, "b">>,
               <<GT7, SP, "T">>, <<>> >>)

\* the whole file is one conflict whose current side is empty
TextDeleted ==
  joinLines(<< <<LT7, SP, "H">>, <<EQ7>>, <<"class", SP, "a">>, <<GT7, SP, "T">> >>)

\* a structural conflict whose current side holds dollar signs
TextDollar ==
  joinLines(<< <<"x">>, <<LT7, SP, "H">>, <<"a", "(", DOLLAR, DOLLAR, ")">>, <<EQ7>>,
               <<"function", SP, "a">>, <<GT7, SP, "T">>, <<>> >>)

\* two content hunks that no builtin plugin merges
TextTwoHunks ==
  joinLines(<< <<LT7, SP, "H">>, <<"a">>, <<EQ7>>, <<"b">>, <<GT7, SP, "T">>, <<"x">>,
               <<LT7, SP, "H">>, <<"c">>, <<EQ7>>, <<"x">>, <<GT7, SP, "T">>, <<>> >>)

\* an import conflict
TextImport ==
  joinLines(<< <<LT7, SP, "H">>, <<"import", SP, ".", "/", "b">>, <<EQ7>>,
               <<"import", SP, "a">>, <<GT7, SP, "T">>, <<>> >>)

\* a content conflict of two bullet lists
TextList ==
  joinLines(<< <<LT7, SP, "H">>, <<"-", SP, "a">>, <<EQ7>>, <<"-", SP, "b">>,
               <<GT7, SP, "T">>, <<>> >>)

\* the texts each conflicted file may hold
SampleTexts ==
  [f \in {"a.ts", "b.ts", "c.ts", "d.ts"} |->
     CASE f = "a.ts" -> {TextWhitespace, TextDeleted, TextTwoHunks}
       [] f = "b.ts" -> {TextWhitespace, TextDollar, TextImport}
       [] f = "c.ts" -> {TextList}
       [] f = "d.ts" -> {TextWhitespace}]

firstFiles(n) == [i \in 1..n |-> FileNames[i]]

filesOf(seq) == {seq[i] : i \in 1..Len(seq)}

\* GitAnalyzer.analyzeConflicts: a file whose read fails is skipped
RECURSIVE analyzeConflicts(_, _, _)
analyzeConflicts(files, contents, unreadable) ==
  IF Len(files) = 0 THEN <<>>
  ELSE IF files[1] \in unreadable THEN analyzeConflicts(Tail(files), contents, unreadable)
  ELSE <<analyzeFileConflict(files[1], contents[files[1]])>>
       \o analyzeConflicts(Tail(files), contents, unreadable)

(***************************************************************************)
(* External plugins a host may register                                       *)
(***************************************************************************)
MaxRegistrations == 1

ExternalPlugins ==
  { [name |-> "team-style", priority |-> 20, kind |-> "external",
     types |-> {"whitespace", "structural"}, behaviour |-> "content"],
    [name |-> "probe", priority |-> 5, kind |-> "external",
     types |-> ConflictTypes, behaviour |-> "declined"],
    [name |-> "strict", priority |-> NoPriority, kind |-> "external",
     types |-> {"content", "structural"}, behaviour |-> "throws"] }

Fallbacks == {"incoming", "current", "both", "none"}

DefaultFallback == "incoming"

(***************************************************************************)
(* Shared state and steps                                                  *)
(***************************************************************************)
NoOpts == [entry |-> "none"]

\* the resolver is not in use (function specifications)
IdleResolver ==
  /\ registry = <<>>
  /\ builtinsRegistered = FALSE
  /\ registrations = 0
  /\ constructed = FALSE
  /\ disk = <<>>
  /\ conflicted = <<>>
  /\ opts = NoOpts
  /\ conflicts = <<>>
  /\ manualReview = <<>>
  /\ pluginList = <<>>
  /\ idx = 0
  /\ result = EmptyResult
  /\ resolveCalls = <<>>
  /\ events = <<>>
  /\ staged = {}
  /\ branch = MainBranch
  /\ pc = "idle"

InitTree ==
  /\ \E n \in 0..MaxConflicts :
       /\ conflicted = firstFiles(n)
       /\ disk \in [filesOf(firstFiles(n)) -> UNION {SampleTexts[f] : f \in DOMAIN SampleTexts}]
       /\ \A f \in DOMAIN disk : disk[f] \in SampleTexts[f]
  /\ registry = <<>>
  /\ builtinsRegistered = FALSE
  /\ registrations = 0
  /\ constructed = FALSE
  /\ conflicts = <<>>
  /\ manualReview = <<>>
  /\ pluginList = <<>>
  /\ idx = 0
  /\ result = EmptyResult
  /\ resolveCalls = <<>>
  /\ events = <<>>
  /\ staged = {}
  /\ branch = MainBranch
  /\ input = <<>>
  /\ output = NotRun

\* faulty variant: the guard left out, every construction registers the
\* builtins again
registerBuiltinsEveryTime ==
  /\ registry' = registerAll(registry, builtinPlugins)
  /\ builtinsRegistered' = TRUE
  /\ constructed' = TRUE

\* ensureBuiltinPluginsRegistered, as the constructor calls it
ensureBuiltinPluginsRegistered ==
  /\ registry' = IF builtinsRegistered THEN registry ELSE registerAll(registry, builtinPlugins)
  /\ builtinsRegistered' = TRUE
  /\ constructed' = TRUE

\* the effective arguments of the running autoResolveConflicts call
\* autoResolveConflicts(conflicts, dryRun = true, ...) for a host's call;
\* Boolean(options.dryRun) for the fix command, where an absent --dry-run
\* leaves options.dryRun undefined
dryRunOf(o) == IF o.dryRun = "unset" THEN o.entry = "api" ELSE o.dryRun = "true"

fallbackOf(o) == IF o.fallback = "unset" THEN DefaultFallback ELSE o.fallback

\* the effects of one iteration on the state
applyIteration(conflict, step) ==
  /\ result' = step.result
  /\ resolveCalls' = resolveCalls \o [j \in 1..Len(step.calls) |-> <<conflict.file, step.calls[j]>>]
  /\ disk' = IF step.written THEN [disk EXCEPT ![conflict.file] = step.content] ELSE disk
  /\ events' = IF step.written
                THEN Append(events, [op |-> "write", file |-> conflict.file,
                                     by |-> IF step.fallbackRan THEN "fallback" ELSE "plugin"])
                ELSE events

\* one iteration of the for loop of autoResolveConflicts
AutoResolveStep ==
  /\ pc = "loop"
  /\ idx <= Len(conflicts)
  /\ \E readOk \in BOOLEAN, writeOk \in BOOLEAN :
       applyIteration(conflicts[idx],
                      resolveConflict(result, conflicts[idx], pluginList, dryRunOf(opts),
                                      fallbackOf(opts),
                                      [ok |-> readOk, content |-> disk[conflicts[idx].file]],
                                      writeOk))
  /\ idx' = idx + 1
  /\ UNCHANGED <<input, output, registry, builtinsRegistered, registrations, constructed,
                 conflicted, opts, conflicts, manualReview, pluginList, staged, branch, pc>>

(***************************************************************************)
(* Specification Spec: a host registers plugins, constructs resolvers and  *)
(* calls autoResolveConflicts on the analysed conflicts                    *)
(***************************************************************************)
Init ==
  /\ InitTree
  /\ opts = NoOpts
  /\ pc = "host"

\* registerConflictResolutionPlugin(p), called by the host
Register(p) ==
  /\ pc = "host"
  /\ registrations < MaxRegistrations
  /\ registry' = registerConflictResolutionPlugin(registry, p)
  /\ registrations' = registrations + 1
  /\ UNCHANGED <<input, output, builtinsRegistered, constructed, disk, conflicted, opts,
                 conflicts, manualReview, pluginList, idx, result, resolveCalls, events, staged, branch, pc>>

\* new ConflictResolver()
Construct ==
  /\ pc = "host"
  /\ ~constructed
  /\ ensureBuiltinPluginsRegistered
  /\ UNCHANGED <<input, output, registrations, disk, conflicted, opts, conflicts,
                 manualReview, pluginList, idx, result, resolveCalls, events, staged, branch, pc>>

\* resolver.autoResolveConflicts(analyzer.analyzeConflicts(), dryRun?, fallback?):
\* the statements before the loop
Call(dryRunArg, fallbackArg) ==
  /\ pc = "host"
  /\ constructed
  /\ Len(conflicted) > 0
  /\ opts' = [entry |-> "api", dryRun |-> dryRunArg, fallback |-> fallbackArg]
  /\ conflicts' = analyzeConflicts(conflicted, disk, {})
  /\ pluginList' = getConflictResolutionPlugins(registry)
  /\ result' = EmptyResult
  /\ idx' = 1
  /\ pc' = "loop"
  /\ UNCHANGED <<input, output, registry, builtinsRegistered, registrations, constructed,
                 disk, conflicted, manualReview, resolveCalls, events, staged, branch>>

\* return result
Return ==
  /\ pc = "loop"
  /\ opts.entry = "api"
  /\ idx > Len(conflicts)
  /\ pc' = "returned"
  /\ UNCHANGED <<input, output, registry, builtinsRegistered, registrations, constructed,
                 disk, conflicted, opts, conflicts, manualReview, pluginList, idx, result, resolveCalls,
                 events, staged, branch>>

Next ==
  \/ \E p \in ExternalPlugins : Register(p)
  \/ Construct
  \/ \E d \in {"unset", "true", "false"}, f \in Fallbacks \cup {"unset"} : Call(d, f)
  \/ AutoResolveStep
  \/ Return

Spec == Init /\ [][Next]_vars

(***************************************************************************)
(* Specification SpecFix: the `smugit fix` command (fix.ts)                *)
(***************************************************************************)
\* the options commander hands to the action: a boolean flag that is not on
\* the command line is undefined (FALSE here; "unset" for --dry-run and
\* --accept), checkpoint is false under --no-checkpoint, and fallback has
\* the default 'incoming'
FixOptions ==
  [entry : {"cli"}, auto : BOOLEAN, interactive : BOOLEAN, dryRun : {"unset", "true"},
   checkpoint : BOOLEAN, fallback : Fallbacks,
   accept : {"unset", "current", "incoming", "skip"}]

\* --accept is read only under --interactive
InitFix ==
  /\ InitTree
  /\ opts \in FixOptions
  /\ opts.interactive \/ opts.accept = "unset"
  /\ pc = "fix"

selectConflicts(cs, wanted) == SelectSeq(cs, LAMBDA c : c.autoResolvable = wanted)

\* options.auto || (!options.interactive && autoResolvable.length > 0)
autoRequested(o, autoResolvable) ==
  o.auto \/ (~o.interactive /\ Len(autoResolvable) > 0)

\* faulty variants: the checkpoint is created in a dry run as well; the
\* checkpoint is never created
checkpointInDryRun(o) == o.checkpoint # FALSE

checkpointNever(o) == FALSE

checkpointFirst(o) == (o.checkpoint # FALSE) /\ ~(o.dryRun = "true")

fixFrame == <<input, output, registrations, conflicted>>

\* the resolution plan: conflicts becomes the list handed to
\* handleAutoResolution
plan(found, autoResolvable) ==
  /\ conflicts' = IF ~autoRequested(opts, autoResolvable) THEN <<>>
                   ELSE IF opts.auto THEN found ELSE autoResolvable
  /\ manualReview' = selectConflicts(found, FALSE)
  /\ pc' = IF Len(found) = 0 THEN "done" ELSE "plan"

planOf(found) == plan(found, selectConflicts(found, TRUE))

\* new GitAnalyzer(), new ConflictResolver(), analyzeConflicts() and the
\* resolution plan
FixAnalyze ==
  /\ pc = "fix"
  /\ ensureBuiltinPluginsRegistered
  /\ \E unreadable \in {{}} \cup {{conflicted[n]} : n \in 1..Len(conflicted)} :
       planOf(analyzeConflicts(conflicted, disk, unreadable))
  /\ UNCHANGED <<fixFrame, disk, opts, pluginList, idx, result, resolveCalls, events,
                 staged, branch>>

\* faulty variant: a failing git checkout is ignored and the command goes on
FixCheckpointIgnoringFailure ==
  /\ pc = "plan"
  /\ IF checkpointFirst(opts)
     THEN \E checkoutOk \in BOOLEAN :
            IF checkoutOk
            THEN /\ branch' = CheckpointBranch
                 /\ events' = Append(events, [op |-> "checkpoint", file |-> "none", by |-> "fix"])
            ELSE UNCHANGED <<branch, events>>
     ELSE UNCHANGED <<branch, events>>
  /\ pc' = "auto"
  /\ UNCHANGED <<fixFrame, registry, builtinsRegistered, constructed, disk, opts, conflicts,
                 manualReview, pluginList, idx, result, resolveCalls, staged>>

\* resolver.createCheckpoint() when it is wanted; a failing git checkout
\* reaches the catch block and process.exit(1)
FixCheckpoint ==
  /\ pc = "plan"
  /\ IF checkpointFirst(opts)
     THEN \E checkoutOk \in BOOLEAN :
            IF checkoutOk
            THEN /\ branch' = CheckpointBranch
                 /\ events' = Append(events, [op |-> "checkpoint", file |-> "none", by |-> "fix"])
                 /\ pc' = "auto"
            ELSE /\ pc' = "exit1"
                 /\ UNCHANGED <<branch, events>>
     ELSE /\ pc' = "auto"
          /\ UNCHANGED <<branch, events>>
  /\ UNCHANGED <<fixFrame, registry, builtinsRegistered, constructed, disk, opts, conflicts,
                 manualReview, pluginList, idx, result, resolveCalls, staged>>

\* handleAutoResolution up to the loop of autoResolveConflicts, or past it
\* when automatic resolution is not asked for; idx counts the conflicts of
\* whichever loop runs
FixAutoBegin ==
  /\ pc = "auto"
  /\ IF Len(conflicts) > 0
     THEN /\ pluginList' = getConflictResolutionPlugins(registry)
          /\ result' = EmptyResult
          /\ pc' = "loop"
     ELSE /\ pc' = "interactive"
          /\ UNCHANGED <<pluginList, result>>
  /\ idx' = 1
  /\ UNCHANGED <<fixFrame, registry, builtinsRegistered, constructed, disk, opts, conflicts,
                 manualReview, resolveCalls, events, staged, branch>>

stageEvents(files, by) == [n \in 1..Len(files) |-> [op |-> "stage", file |-> files[n], by |-> by]]

\* handleAutoResolution after autoResolveConflicts has returned:
\* stageResolvedFiles runs `git add` file by file and stops at the first
\* that fails, which ends the command with process.exit(1)
FixAutoEnd ==
  /\ pc = "loop"
  /\ opts.entry = "cli"
  /\ idx > Len(conflicts)
  /\ IF result.success /\ Len(result.resolvedFiles) > 0 /\ ~dryRunOf(opts)
     THEN \E n \in 0..Len(result.resolvedFiles) :
            LET added == SubSeq(result.resolvedFiles, 1, n)
            IN /\ staged' = staged \cup filesOf(added)
               /\ events' = events \o stageEvents(added, "auto")
               /\ pc' = IF n = Len(result.resolvedFiles) THEN "interactive" ELSE "exit1"
     ELSE /\ pc' = "interactive"
          /\ UNCHANGED <<staged, events>>
  /\ idx' = 1
  /\ UNCHANGED <<fixFrame, registry, builtinsRegistered, constructed, disk, opts, conflicts,
                 manualReview, pluginList, result, resolveCalls, branch>>

RECURSIVE dropConflictLines(_, _, _, _)
\* the inner loop of resolveWithVersion over the lines of the text
dropConflictLines(lines, n, inConflict, replacement) ==
  IF n > Len(lines) THEN <<>>
  ELSE IF startsWith(lines[n], <<LT7>>)
  THEN <<replacement>> \o dropConflictLines(lines, n + 1, TRUE, replacement)
  ELSE IF startsWith(lines[n], <<GT7>>)
  THEN dropConflictLines(lines, n + 1, FALSE, replacement)
  ELSE IF ~inConflict
  THEN <<lines[n]>> \o dropConflictLines(lines, n + 1, inConflict, replacement)
  ELSE dropConflictLines(lines, n + 1, inConflict, replacement)

RECURSIVE resolveWithVersionFrom(_, _, _, _)
resolveWithVersionFrom(resolvedContent, hunks, k, version) ==
  IF k > Len(hunks) THEN resolvedContent
  ELSE LET replacement == IF version = "current" THEN hunks[k].currentContent
                          ELSE hunks[k].incomingContent
       IN resolveWithVersionFrom(
            joinLines(dropConflictLines(splitLines(resolvedContent), 1, FALSE, replacement)),
            hunks, k + 1, version)

\* the text resolveWithVersion writes
resolveWithVersion(original, hunks, version) ==
  resolveWithVersionFrom(original, hunks, 1, version)

InteractiveChoices == {"current", "incoming", "skip", "editor"}

\* one iteration of the loop of handleInteractiveResolution: the choice is
\* --accept or the prompt's answer (after the diff, if asked for), and
\* applyResolutionChoice -> resolveWithVersion reads, writes and stages,
\* logging instead of raising when one of them fails
InteractiveStep ==
  /\ pc = "interactive"
  /\ opts.interactive
  /\ idx <= Len(manualReview)
  /\ \E choice \in (IF opts.accept = "unset" THEN InteractiveChoices ELSE {opts.accept}),
        readOk \in BOOLEAN, writeOk \in BOOLEAN, stageOk \in BOOLEAN :
       LET conflict == manualReview[idx]
           applies == choice \in {"current", "incoming"} /\ ~dryRunOf(opts)
           written == applies /\ readOk /\ writeOk
           added == written /\ stageOk
           wrote == [op |-> "write", file |-> conflict.file, by |-> choice]
       IN /\ disk' = IF written
                     THEN [disk EXCEPT ![conflict.file] =
                             resolveWithVersion(disk[conflict.file], conflict.hunks, choice)]
                     ELSE disk
          /\ events' = IF added THEN events \o <<wrote>> \o stageEvents(<<conflict.file>>, choice)
                       ELSE IF written THEN Append(events, wrote)
                       ELSE events
          /\ staged' = IF added THEN staged \cup {conflict.file} ELSE staged
  /\ idx' = idx + 1
  /\ UNCHANGED <<fixFrame, registry, builtinsRegistered, constructed, opts, conflicts,
                 manualReview, pluginList, result, resolveCalls, branch, pc>>

\* the end of the action: the summary and the next steps
FixDone ==
  /\ pc = "interactive"
  /\ ~opts.interactive \/ idx > Len(manualReview)
  /\ pc' = "done"
  /\ UNCHANGED <<fixFrame, registry, builtinsRegistered, constructed, disk, opts, conflicts,
                 manualReview, pluginList, idx, result, resolveCalls, events, staged, branch>>

NextFix ==
  \/ FixAnalyze
  \/ FixCheckpoint
  \/ FixAutoBegin
  \/ AutoResolveStep
  \/ FixAutoEnd
  \/ InteractiveStep
  \/ FixDone

SpecFix == InitFix /\ [][NextFix]_vars

(***************************************************************************)
(* Specification SpecRegistry: the process-wide plugin registry.  A host   *)
(* registers plugins, constructs resolvers and obtains the ordered plugin  *)
(* list as autoResolveConflicts does before its loop.  events logs the     *)
(* host's calls.                                                           *)
(***************************************************************************)
MaxRegistryCalls == 3

MaxConstructions == 2

\* the plugins a host registers: names used twice with different
\* priorities, equal priorities under different names, an unset priority
\* and the name of a builtin
RegistryPlugins ==
  { [name |-> "team-style", priority |-> 5, kind |-> "external",
     types |-> {"whitespace"}, behaviour |-> "content"],
    [name |-> "team-style", priority |-> 20, kind |-> "external",
     types |-> {"whitespace"}, behaviour |-> "declined"],
    [name |-> "lint-fix", priority |-> 20, kind |-> "external",
     types |-> {"content"}, behaviour |-> "content"],
    [name |-> "strict", priority |-> NoPriority, kind |-> "external",
     types |-> {"content", "structural"}, behaviour |-> "throws"],
    [name |-> "late", priority |-> DefaultPriority, kind |-> "external",
     types |-> {"structural"}, behaviour |-> "content"],
    [name |-> "whitespace-normalizer", priority |-> 50, kind |-> "external",
     types |-> {"whitespace"}, behaviour |-> "declined"] }

NoPlugin == [name |-> "none"]

callsOf(op) == {n \in 1..Len(events) : events[n].op = op}

registryFrame == <<input, output, disk, conflicted, opts, conflicts, manualReview, idx,
                   result, resolveCalls, staged, branch, pc>>

InitRegistry ==
  /\ input = <<>>
  /\ output = NotRun
  /\ IdleResolver

\* registerConflictResolutionPlugin(p), called by the host
RegistryRegister(p) ==
  /\ registrations < MaxRegistryCalls
  /\ registry' = registerConflictResolutionPlugin(registry, p)
  /\ registrations' = registrations + 1
  /\ events' = Append(events, [op |-> "register", plugin |-> p])
  /\ UNCHANGED <<builtinsRegistered, constructed, pluginList, registryFrame>>

\* new ConflictResolver(), any number of times
RegistryConstruct ==
  /\ Cardinality(callsOf("construct")) < MaxConstructions
  /\ ensureBuiltinPluginsRegistered
  /\ events' = Append(events, [op |-> "construct", plugin |-> NoPlugin])
  /\ UNCHANGED <<registrations, pluginList, registryFrame>>

\* const plugins = getConflictResolutionPlugins(), at the start of a run
\* of a constructed resolver
RegistryGet ==
  /\ constructed
  /\ pluginList' = getConflictResolutionPlugins(registry)
  /\ UNCHANGED <<registry, builtinsRegistered, registrations, constructed, events, registryFrame>>

NextRegistry ==
  \/ \E p \in RegistryPlugins : RegistryRegister(p)
  \/ RegistryConstruct
  \/ RegistryGet

SpecRegistry == InitRegistry /\ [][NextRegistry]_vars
(***************************************************************************)
(* Specification SpecParse: parseConflictHunks applied to every text of at *)
(* most MaxLines lines over ParseLineKinds                                 *)
(***************************************************************************)
MaxLines == 6

ParseLineKinds ==
  { <<LT7, SP, "H">>, <<BAR7, SP, "O">>, <<EQ7>>, <<GT7, SP, "T">>, <<"a">>, <<>> }

\* the texts of n lines
ParseTexts(n) == { joinLines(ls) : ls \in [1..n -> ParseLineKinds] }

InitParse ==
  /\ \E n \in 1..MaxLines : input \in ParseTexts(n)
  /\ output = NotRun
  /\ IdleResolver

Parse ==
  /\ ~output.done
  /\ output' = [done |-> TRUE, value |-> parseConflictHunks(input)]
  /\ UNCHANGED <<input, resolverVars>>

NextParse == Parse

SpecParse == InitParse /\ [][NextParse]_vars

(***************************************************************************)
(* Well-formed conflict regions, as the marker convention defines them:    *)
(* a start line, content, optionally a base marker and content, a          *)
(* separator, content, an end line; marker lines occur nowhere else.       *)
(***************************************************************************)
isMarkerLine(l) ==
  startsWith(l, <<LT7>>) \/ startsWith(l, <<BAR7>>) \/
  startsWith(l, <<EQ7>>) \/ startsWith(l, <<GT7>>)

RECURSIVE scanRegions(_, _, _, _, _)
\* st: "out", "cur", "base", "inc"; result: the number of regions, whether
\* some region has a base section, and whether the text is well formed
scanRegions(lines, i, st, n, based) ==
  IF i > Len(lines) THEN [ok |-> st = "out", n |-> n, based |-> based]
  ELSE LET l == lines[i] IN
    IF ~isMarkerLine(l) THEN scanRegions(lines, i + 1, st, n, based)
    ELSE IF st = "out" /\ startsWith(l, <<LT7>>) THEN scanRegions(lines, i + 1, "cur", n, based)
    ELSE IF st = "cur" /\ startsWith(l, <<BAR7>>) THEN scanRegions(lines, i + 1, "base", n, TRUE)
    ELSE IF st \in {"cur", "base"} /\ startsWith(l, <<EQ7>>) THEN scanRegions(lines, i + 1, "inc", n, based)
    ELSE IF st = "inc" /\ startsWith(l, <<GT7>>) THEN scanRegions(lines, i + 1, "out", n + 1, based)
    ELSE [ok |-> FALSE, n |-> n, based |-> based]

regionsOf(content) == scanRegions(splitLines(content), 1, "out", 0, FALSE)

\* the line numbers of the start marker lines, ascending
startLinesOf(content) ==
  LET ls == splitLines(content) IN {i \in 1..Len(ls) : startsWith(ls[i], <<LT7>>)}

hunksMatchRegions(content, hunks) ==
  LET ls == splitLines(content) IN
  /\ Len(hunks) = regionsOf(content).n
  /\ \A k \in 1..Len(hunks) :
       /\ hunks[k].startLine <= hunks[k].endLine
       /\ hunks[k].startLine \in 1..Len(ls)
       /\ hunks[k].endLine \in 1..Len(ls)
       /\ hunks[k].conflictMarkers.start = ls[hunks[k].startLine]
       /\ hunks[k].conflictMarkers.end = ls[hunks[k].endLine]
       /\ startsWith(ls[hunks[k].startLine], <<LT7>>)
       /\ startsWith(ls[hunks[k].endLine], <<GT7>>)
  /\ \A k \in 1..(Len(hunks) - 1) : hunks[k].endLine < hunks[k + 1].startLine

\* C1: for a text of N well-formed conflict regions, with or without a base
\* section, parseConflictHunks returns exactly N hunks in order of
\* appearance, each with startLine <= endLine and with the start and end
\* marker text equal to the lines at startLine and endLine.
C1_ParseYieldsEveryRegion ==
  (output.done /\ regionsOf(input).ok) => hunksMatchRegions(input, output.value)

\* the same statement for texts whose regions have no base section
ParseYieldsEveryTwoWayRegion ==
  (output.done /\ regionsOf(input).ok /\ ~regionsOf(input).based)
     => hunksMatchRegions(input, output.value)

\* a parsed text with two regions and no base section
TwoWayRegionsParsed ==
  output.done /\ regionsOf(input).ok /\ ~regionsOf(input).based /\ regionsOf(input).n = 2

\* the text of the lines before line s
textBefore(content, s) == joinLines(SubSeq(splitLines(content), 1, s - 1))

\* line s opens a region that is not terminated: no separator line, or no
\* end marker line, follows it before the end of the file
unterminatedAt(content, s) ==
  LET ls == splitLines(content) IN
  /\ startsWith(ls[s], <<LT7>>)
  /\ \/ \A j \in (s + 1)..Len(ls) : ~startsWith(ls[j], <<EQ7>>)
     \/ \A j \in (s + 1)..Len(ls) : ~startsWith(ls[j], <<GT7>>)

\* C19: a region that is not terminated yields no hunk and no error: the
\* hunks returned are those of the well-formed regions before it, as they
\* are returned for the text that ends before the open region.
C19_UnterminatedRegionDropped ==
  output.done =>
    \A s \in startLinesOf(input) :
      (unterminatedAt(input, s) /\ regionsOf(textBefore(input, s)).ok)
        => output.value = parseConflictHunks(textBefore(input, s))

\* a parsed text of one well-formed region followed by a start marker and a
\* separator without end marker: one hunk is returned
RegionThenOpenRegionParsed ==
  /\ output.done
  /\ Len(output.value) = 1
  /\ \E s \in startLinesOf(input) :
       /\ s > output.value[1].endLine
       /\ unterminatedAt(input, s)
       /\ regionsOf(textBefore(input, s)).n = 1
       /\ regionsOf(textBefore(input, s)).ok
       /\ \E j \in (s + 1)..Len(splitLines(input)) : startsWith(splitLines(input)[j], <<EQ7>>)

(***************************************************************************)
(* Specification SpecClassify: analyzeFileConflict applied to the content  *)
(* of one conflicted file.                                                 *)
(***************************************************************************)
MaxSideLines == 21

\* the numbers of lines of a side, around the thresholds of the complexity
SideLineCounts == {1, 2, 5, 6, 20, MaxSideLines}

\* the first line of a side; the lines after it are all "x"
FirstLines ==
  { <<"a">>, <<"b">>, <<"a", SP, "b">>, <<"a", SP, SP, "b">>, <<"if">>,
    <<"import", SP, "x">>, <<"interface", SP, "I">>, <<>> }

RECURSIVE fillerLines(_)
fillerLines(n) == IF n = 0 THEN <<>> ELSE <<NL, "x">> \o fillerLines(n - 1)

sideOf(first, n) == first \o fillerLines(n - 1)

Sides == {sideOf(first, n) : first \in FirstLines, n \in SideLineCounts}

\* a two-way conflict region without the line break after its end marker
regionOf(current, incoming) ==
  <<LT7, SP, "H", NL>> \o current \o <<NL, EQ7, NL>> \o incoming \o <<NL, GT7, SP, "T">>

\* a region whose current side has no line at all
regionWithoutCurrent(incoming) ==
  <<LT7, SP, "H", NL, EQ7, NL>> \o incoming \o <<NL, GT7, SP, "T">>

\* the sides of the regions of a file of two regions
PairedSides ==
  { <<sideOf(<<"a">>, 1), sideOf(<<"b">>, 1)>>,
    <<sideOf(<<"a", SP, "b">>, 2), sideOf(<<"a", SP, SP, "b">>, 2)>>,
    <<sideOf(<<"a">>, 2), sideOf(<<"a">>, 5)>>,
    <<sideOf(<<"a">>, 6), sideOf(<<"b">>, 2)>>,
    <<sideOf(<<"b">>, 1), sideOf(<<"a">>, MaxSideLines)>> }

\* the end of the file: with or without a final line break
FileEnds == {<<>>, <<NL>>}

ClassifyTexts ==
  {regionOf(c, i) \o e : c \in Sides, i \in Sides, e \in FileEnds}
  \cup {regionOf(p[1], p[2]) \o <<NL, "x", NL>> \o regionOf(q[1], q[2]) \o e :
          p \in PairedSides, q \in PairedSides, e \in FileEnds}
  \cup {regionWithoutCurrent(i) \o e : i \in {<<>>, <<SP>>, <<"a">>}, e \in FileEnds}
  \cup {<<"import", SP, "x", NL>> \o regionOf(sideOf(<<"a">>, 1), sideOf(<<"b">>, 1)) \o e :
          e \in FileEnds}

InitClassify ==
  /\ input \in ClassifyTexts
  /\ output = NotRun
  /\ IdleResolver

\* analyzeFileConflict(filePath) on a file whose content is input
Analyze ==
  /\ ~output.done
  /\ output' = [done |-> TRUE, value |-> analyzeFileConflict("a.ts", input)]
  /\ UNCHANGED <<input, resolverVars>>

NextClassify == Analyze

SpecClassify == InitClassify /\ [][NextClassify]_vars

(***************************************************************************)
(* Specification SpecMerge: the per-hunk merges of the builtin plugins     *)
(* applied to one hunk: computeContentReplacement, mergeKeyValueLines and  *)
(* the replacer of import-merge.  input is the hunk.                       *)
(***************************************************************************)
\* lines of prose, of lists and of whitespace variations
ContentLines ==
  { <<>>, <<"a">>, <<"b">>, <<"a", SP, "b">>, <<"a", SP, SP, "b">>, <<"a", TAB, "b">>,
    <<"a", SP>>, <<"-", SP, "a">>, <<"-", SP, "b">> }

\* lines of key-value blocks, plain and JSON-like
KeyValueLines ==
  { <<"a", ":", SP, "1", ",">>, <<"b", ":", SP, "2", ",">>, <<"b", ":", SP, "3", ",">>,
    <<"c", ":", SP, "1">>, <<"c", ":", SP, "1", ",">>,
    <<"\"", "a", "\"", ":", SP, "\"", "1", "\"", ",">>,
    <<"\"", "b", "\"", ":", SP, "2">>, <<"a", ":", SP, "\"", "2", "\"">> }

\* import and require lines, and one line that is neither
ImportLines ==
  { <<"import", SP, "a">>, <<"import", SP, SP, "a">>, <<"import", SP, "b">>,
    <<"import", SP, ".", "/", "a">>, <<"import", SP, ".", ".", "/", "b">>,
    <<"const", SP, "a", SP, "=", SP, "require", "(", "b", ")">>,
    <<"require", "(", "b", ")">>, <<"a">>, <<>> }

\* the sides of one or two lines over a set of lines
sidesOver(lines) == lines \cup {l \o <<NL>> \o m : l \in lines, m \in lines}

hunksOver(lines) ==
  {[currentContent |-> c, incomingContent |-> i] : c \in sidesOver(lines), i \in sidesOver(lines)}

MergeHunks == hunksOver(ContentLines) \cup hunksOver(KeyValueLines) \cup hunksOver(ImportLines)

InitMerge ==
  /\ input \in MergeHunks
  /\ output = NotRun
  /\ IdleResolver

\* computeContentReplacement(conflict, hunkIndex), as supports and resolve
\* of simple-content-merge call it
ComputeReplacement ==
  /\ ~output.done
  /\ output' = [done |-> TRUE, op |-> "content", value |-> computeContentReplacement(input)]
  /\ UNCHANGED <<input, resolverVars>>

\* mergeKeyValueLines(currentLines, incomingLines), called on two key-value
\* blocks
MergeKeyValue ==
  /\ ~output.done
  /\ isKeyValueBlock(splitLines(input.currentContent))
  /\ isKeyValueBlock(splitLines(input.incomingContent))
  /\ output' = [done |-> TRUE, op |-> "keyvalue",
                value |-> mergeKeyValueLines(splitLines(input.currentContent),
                                             splitLines(input.incomingContent))]
  /\ UNCHANGED <<input, resolverVars>>

\* the replacer of import-merge for one hunk
MergeImports ==
  /\ ~output.done
  /\ output' = [done |-> TRUE, op |-> "import", value |-> importReplacement(input)]
  /\ UNCHANGED <<input, resolverVars>>

NextMerge ==
  \/ ComputeReplacement
  \/ MergeKeyValue
  \/ MergeImports

SpecMerge == InitMerge /\ [][NextMerge]_vars

(***************************************************************************)
(* Specification SpecStale: the host's run of Spec on a tree that another  *)
(* process may write to between analyzeConflicts and the readFile of the   *)
(* resolution                                                              *)
(***************************************************************************)
\* the file after a merge by hand: no marker is left
TextMerged == joinLines(<< <<"a", SP, "b">>, <<>> >>)

\* the whitespace conflict under the labels of another merge
TextRelabelled ==
  joinLines(<< <<LT7, SP, "O">>, <<"a", SP, SP, "b">>, <<EQ7>>, <<"a", SP, "b">>,
               <<GT7, SP, "O">>, <<>> >>)

StaleTexts == {TextMerged, TextRelabelled}

modified == \E n \in 1..Len(events) : events[n].op = "modify"

\* another process rewrites the file of the conflict the loop is about to
\* resolve, after analyzeFileConflict read it and before readFile reads it
Modify(text) ==
  /\ pc = "loop"
  /\ idx <= Len(conflicts)
  /\ ~modified
  /\ disk' = [disk EXCEPT ![conflicts[idx].file] = text]
  /\ events' = Append(events, [op |-> "modify", file |-> conflicts[idx].file, by |-> "other"])
  /\ UNCHANGED <<input, output, registry, builtinsRegistered, registrations, constructed,
                 conflicted, opts, conflicts, manualReview, pluginList, idx, result,
                 resolveCalls, staged, branch, pc>>

NextStale ==
  \/ Next
  \/ \E text \in StaleTexts : Modify(text)

SpecStale == Init /\ [][NextStale]_vars

(***************************************************************************)
(* Properties of the resolver loop (specification Spec)                    *)
(***************************************************************************)
RECURSIVE ascending(_)
\* the elements of a finite set of numbers in ascending order
ascending(S) ==
  IF S = {} THEN <<>>
  ELSE LET m == CHOOSE x \in S : \A y \in S : x <= y
       IN <<m>> \o ascending(S \ {m})

minOf(S) == CHOOSE x \in S : \A y \in S : x <= y

\* the loop runs its body for conflicts[idx]
stepping == pc = "loop" /\ idx <= Len(conflicts) /\ idx' = idx + 1

\* the plugins of the run that support the conflict, and those among them
\* whose resolve does not decline
supporting(conflict) == {j \in 1..Len(pluginList) : supports(pluginList[j], conflict)}

answering(conflict) ==
  {j \in supporting(conflict) : pluginList[j].behaviour # "declined"}

grew(before, after) == Len(after) = Len(before) + 1

\* the read or the write of this iteration failed
ioFailed == grew(result.errors, result'.errors) /\ last(result'.errors).cause \in {"read", "write"}

\* the text with the lines startLine..endLine of every hunk replaced by the
\* hunk's content of the given side
RECURSIVE spliceFrom(_, _, _, _)
spliceFrom(lines, hunks, n, side) ==
  IF n = 0 THEN lines
  ELSE spliceFrom(SubSeq(lines, 1, hunks[n].startLine - 1)
                    \o <<IF side = "current" THEN hunks[n].currentContent
                         ELSE hunks[n].incomingContent>>
                    \o SubSeq(lines, hunks[n].endLine + 1, Len(lines)),
                  hunks, n - 1, side)

spliceHunks(content, hunks, side) ==
  joinLines(spliceFrom(splitLines(content), hunks, Len(hunks), side))

\* C2: the plugin list of a run is in ascending priority order; for each
\* conflict resolve() is called on the supporting plugins in that order up
\* to and including the first that does not decline, on no plugin after it
\* and on no plugin that does not support the conflict; a plugin-resolved
\* conflict is recorded in resolvedBy under that first plugin and the file
\* is written with that plugin's content.
C2_FirstSupportingPluginWins ==
  [][stepping =>
       LET c == conflicts[idx]
           sup == supporting(c)
           ans == answering(c)
           upTo == IF ans = {} THEN Len(pluginList) ELSE minOf(ans)
           called == ascending({j \in sup : j <= upTo})
       IN /\ \A i, j \in 1..Len(pluginList) :
               i < j => priorityOf(pluginList[i]) <= priorityOf(pluginList[j])
          /\ resolveCalls' = resolveCalls \o
               [n \in 1..Len(called) |-> <<c.file, pluginList[called[n]].name>>]
          /\ (ans # {} => grew(result.resolvedBy, result'.resolvedBy)
                            \/ grew(result.failedFiles, result'.failedFiles))
          /\ grew(result.resolvedBy, result'.resolvedBy) =>
               /\ ans # {}
               /\ last(result'.resolvedBy).file = c.file
               /\ last(result'.resolvedBy).plugin = pluginList[minOf(ans)].name
               /\ last(result'.resolvedFiles) = c.file
               /\ ~dryRunOf(opts) =>
                    disk'[c.file] =
                      resolve(pluginList[minOf(ans)], c,
                              [ok |-> TRUE, content |-> disk[c.file]]).content
  ]_vars

\* a conflict supported by a priority-10 and by a priority-20 plugin was
\* resolved by the priority-10 plugin, and the other was never called
PriorityTenBeatsTwenty ==
  /\ pc = "returned"
  /\ \E n \in 1..Len(conflicts), i, j \in 1..Len(pluginList) :
       /\ priorityOf(pluginList[i]) = 10 /\ priorityOf(pluginList[j]) = 20
       /\ {i, j} \subseteq supporting(conflicts[n])
       /\ \E r \in 1..Len(result.resolvedBy) :
            /\ result.resolvedBy[r].file = conflicts[n].file
            /\ result.resolvedBy[r].plugin = pluginList[i].name
       /\ \A m \in 1..Len(resolveCalls) :
            resolveCalls[m] # <<conflicts[n].file, pluginList[j].name>>
       /\ \E m \in 1..Len(events) :
            events[m].op = "write" /\ events[m].file = conflicts[n].file

\* C3: with fallback `current`, dryRun false and no plugin resolving the
\* conflict (and the read and the write succeeding), the file is reported in
\* resolvedFiles and is written with the original content in which every
\* hunk's lines startLine..endLine are replaced by the hunk's raw current
\* content, whatever that content is.
C3_FallbackCurrentSplicesRawContent ==
  [][(/\ stepping
      /\ fallbackOf(opts) = "current"
      /\ ~dryRunOf(opts)
      /\ answering(conflicts[idx]) = {}
      /\ ~ioFailed)
     => /\ grew(result.resolvedFiles, result'.resolvedFiles)
        /\ last(result'.resolvedFiles) = conflicts[idx].file
        /\ disk'[conflicts[idx].file] =
             spliceHunks(disk[conflicts[idx].file], conflicts[idx].hunks, "current")
  ]_vars

\* the same statement for the inputs the loop handles as stated: the spliced
\* text is not empty and no current content holds a dollar sign
FallbackCurrentSplicesPlainContent ==
  [][(/\ stepping
      /\ fallbackOf(opts) = "current"
      /\ ~dryRunOf(opts)
      /\ answering(conflicts[idx]) = {}
      /\ ~ioFailed
      /\ spliceHunks(disk[conflicts[idx].file], conflicts[idx].hunks, "current") # <<>>
      /\ \A n \in 1..Len(conflicts[idx].hunks) :
           ~includes(conflicts[idx].hunks[n].currentContent, <<DOLLAR>>))
     => /\ grew(result.resolvedFiles, result'.resolvedFiles)
        /\ last(result'.resolvedFiles) = conflicts[idx].file
        /\ disk'[conflicts[idx].file] =
             spliceHunks(disk[conflicts[idx].file], conflicts[idx].hunks, "current")
  ]_vars

\* C4: an error raised by a supporting plugin's resolve() leaves the run as
\* an error; it never becomes an entry of failedFiles/errors.
C4_PluginErrorPropagates ==
  \A n \in 1..Len(result.errors) : result.errors[n].cause # "plugin"

\* C5: the loop handles the conflicts one by one in input order whatever
\* happened to the earlier ones: after idx - 1 iterations exactly the first
\* idx - 1 conflicts have an outcome, each file is in exactly one of
\* resolvedFiles and failedFiles, both lists are in input order, and on
\* return the two lengths add up to the number of input conflicts.
positionsOf(seq, x) == {n \in 1..Len(seq) : seq[n] = x}

inInputOrder(files) ==
  \A a, b \in 1..Len(files) :
     a < b => \E i, j \in 1..Len(conflicts) :
                 i < j /\ conflicts[i].file = files[a] /\ conflicts[j].file = files[b]

C5_EveryConflictGetsOneOutcome ==
  pc \in {"loop", "returned"} =>
    /\ Len(result.resolvedFiles) + Len(result.failedFiles) = idx - 1
    /\ \A n \in 1..Len(conflicts) :
         Cardinality(positionsOf(result.resolvedFiles, conflicts[n].file))
           + Cardinality(positionsOf(result.failedFiles, conflicts[n].file))
         = IF n < idx THEN 1 ELSE 0
    /\ inInputOrder(result.resolvedFiles)
    /\ inInputOrder(result.failedFiles)
    /\ pc = "returned" =>
         Len(result.resolvedFiles) + Len(result.failedFiles) = Len(conflicts)

\* the first conflict failed and a later one was resolved
LaterConflictResolvedAfterFailure ==
  /\ pc = "returned"
  /\ Len(conflicts) >= 2
  /\ conflicts[1].file \in filesOf(result.failedFiles)
  /\ conflicts[2].file \in filesOf(result.resolvedFiles)

\* C6: warnings and fallbackApplied have one entry per fallback
\* application, for the same files in the same order; no file is both in
\* resolvedBy and in fallbackApplied, and the two together are resolvedFiles.
C6_FallbackAlwaysWarned ==
  LET byPlugin == {result.resolvedBy[n].file : n \in 1..Len(result.resolvedBy)}
      byFallback == {result.fallbackApplied[n].file : n \in 1..Len(result.fallbackApplied)}
  IN /\ Len(result.warnings) = Len(result.fallbackApplied)
     /\ \A n \in 1..Len(result.warnings) :
          result.warnings[n].file = result.fallbackApplied[n].file
     /\ Cardinality(byFallback) = Len(result.fallbackApplied)
     /\ byPlugin \cap byFallback = {}
     /\ byPlugin \cup byFallback = filesOf(result.resolvedFiles)

\* a finished run with a plugin-resolved and a fallback-resolved file
PluginAndFallbackInOneRun ==
  /\ pc = "returned"
  /\ Len(result.resolvedBy) >= 1
  /\ Len(result.fallbackApplied) >= 1

\* C7: the fallback is applied only to a conflict no plugin resolved; with
\* fallback `none` and no plugin resolving, the file goes to failedFiles
\* with the 'no strategy matched' error, success becomes false and nothing
\* is written.
C7_FallbackOnlyAfterPlugins ==
  [][stepping =>
       LET c == conflicts[idx] IN
       /\ grew(result.fallbackApplied, result'.fallbackApplied) =>
            /\ answering(c) = {}
            /\ result'.resolvedBy = result.resolvedBy
            /\ fallbackOf(opts) # "none"
       /\ (fallbackOf(opts) = "none" /\ answering(c) = {}) =>
            /\ result'.failedFiles = Append(result.failedFiles, c.file)
            /\ grew(result.errors, result'.errors)
            /\ last(result'.errors) = [kind |-> "nomatch", file |-> c.file, cause |-> "none"]
            /\ result'.success = FALSE
            /\ result'.resolvedFiles = result.resolvedFiles
            /\ disk' = disk
            /\ events' = events
  ]_vars

\* a finished non-dry run with fallback `none` in which a conflict that no
\* plugin resolves was recorded as unmatched, after another was resolved
UnmatchedUnderFallbackNone ==
  /\ pc = "returned"
  /\ fallbackOf(opts) = "none"
  /\ ~dryRunOf(opts)
  /\ \E n \in 1..Len(result.errors) :
       /\ result.errors[n].kind = "nomatch"
       /\ \E m \in 1..Len(conflicts) :
            conflicts[m].file = result.errors[n].file /\ answering(conflicts[m]) = {}

(***************************************************************************)
(* Properties of the fix command (specification SpecFix)                   *)
(***************************************************************************)
writesOf(evs) == {n \in 1..Len(evs) : evs[n].op = "write"}

\* C8: in a dry run no step writes a file, stages a file or leaves the
\* branch: the tree, the index, the branch and the event log stay as they
\* were at the start, in the automatic and in the interactive part, while
\* every iteration of the resolver loop records in the result what the same
\* iteration records when it is allowed to write.
C8_DryRunLeavesTreeUntouched ==
  [][(opts.entry = "cli" /\ opts.dryRun = "true") =>
       /\ disk' = disk
       /\ events' = <<>>
       /\ staged' = {}
       /\ branch' = MainBranch
       /\ stepping =>
            \E readOk \in BOOLEAN :
               result' = resolveConflict(result, conflicts[idx], pluginList, FALSE,
                                         fallbackOf(opts),
                                         [ok |-> readOk, content |-> disk[conflicts[idx].file]],
                                         TRUE).result
  ]_vars

\* a finished dry run, automatic and interactive, whose preview holds a
\* plugin-resolved and a fallback-resolved file
DryRunPreviewPopulated ==
  /\ pc = "done"
  /\ opts.dryRun = "true"
  /\ opts.auto /\ opts.interactive /\ opts.accept = "current"
  /\ Len(manualReview) >= 1
  /\ Len(result.resolvedBy) >= 1
  /\ Len(result.fallbackApplied) >= 1
  /\ events = <<>> /\ staged = {} /\ branch = MainBranch

\* C9: in a run that is not a dry run and has checkpointing on, every write
\* comes after the checkpoint (and happens on the checkpoint branch), every
\* staging of a file comes after a write of that file, and a tree with one
\* trivial whitespace conflict, resolved without a fault, ends with
\* resolvedFiles = <<file>>, no warning and the events checkpoint, write,
\* stage in this order.
C9_CheckpointThenWriteThenStage ==
  (opts.entry = "cli" /\ opts.dryRun = "unset" /\ opts.checkpoint) =>
    /\ \A m \in writesOf(events) :
         /\ \E n \in 1..(m - 1) : events[n].op = "checkpoint"
         /\ branch = CheckpointBranch
    /\ \A m \in 1..Len(events) :
         events[m].op = "stage" =>
           \E n \in 1..(m - 1) : events[n].op = "write" /\ events[n].file = events[m].file
    /\ \A f \in staged : \E m \in 1..Len(events) : events[m].op = "stage" /\ events[m].file = f
    /\ (/\ pc = "done"
        /\ Len(conflicted) = 1
        /\ Len(conflicts) = 1
        /\ conflicts[1].type = "whitespace"
        /\ conflicts[1].complexity = "trivial"
        /\ result.errors = <<>>)
       => /\ result.resolvedFiles = <<conflicts[1].file>>
          /\ result.warnings = <<>>
          /\ [n \in 1..Len(events) |-> <<events[n].op, events[n].file>>]
               = << <<"checkpoint", "none">>, <<"write", conflicts[1].file>>,
                    <<"stage", conflicts[1].file>> >>

\* the end-to-end run: one trivial whitespace conflict, checkpoint, write
\* and stage
WhitespaceConflictResolvedEndToEnd ==
  /\ pc = "done"
  /\ opts.dryRun = "unset" /\ opts.checkpoint
  /\ Len(conflicted) = 1
  /\ Len(conflicts) = 1
  /\ conflicts[1].type = "whitespace" /\ conflicts[1].complexity = "trivial"
  /\ result.resolvedFiles = <<conflicts[1].file>>
  /\ Len(events) = 3
  /\ staged = {conflicts[1].file}
  /\ branch = CheckpointBranch

\* C10: a run whose caller did not ask for or against a dry run is a dry
\* run: it writes no file, stages nothing and creates no branch.
C10_DryRunByDefault ==
  (opts.entry \in {"api", "cli"} /\ opts.dryRun = "unset") =>
    /\ events = <<>>
    /\ staged = {}
    /\ branch = MainBranch

\* the files of the conflicts the analysis judged not auto-resolvable
manualFiles == {manualReview[n].file : n \in 1..Len(manualReview)}

\* the events of the automatic path: the writes of the resolver loop and the
\* staging that follows it
automaticEvents == {n \in 1..Len(events) : events[n].by \in {"plugin", "fallback", "auto"}}

\* C11: under --auto the automatic path writes and stages only files of
\* auto-resolvable conflicts: no file of a conflict whose autoResolvable
\* flag is false is written by the resolver loop or staged after it,
\* whatever the fallback.
C11_AutoTouchesOnlyAutoResolvable ==
  (opts.entry = "cli" /\ opts.auto) =>
    \A n \in automaticEvents : events[n].file \notin manualFiles

\* the same statement for a run without --auto, where only the
\* auto-resolvable conflicts are handed to the resolver
DefaultPathTouchesOnlyAutoResolvable ==
  (opts.entry = "cli" /\ ~opts.auto) =>
    \A n \in automaticEvents : events[n].file \notin manualFiles

\* the files whose write failed in the running resolution
writeFailures ==
  {result.errors[n].file : n \in {k \in 1..Len(result.errors) : result.errors[k].cause = "write"}}

\* the step leaves the loop of the automatic resolution
leavingLoop == pc = "loop" /\ pc' # "loop"

\* the automatic path has files to stage once the loop is over
stagingDue == result.success /\ Len(result.resolvedFiles) > 0 /\ ~dryRunOf(opts)

\* C20: a failed write or a failed git add during the automatic
\* resolution is recorded and not fatal: the file of a failed write is in
\* failedFiles and the loop goes on to the next conflict; the command does
\* not end with an error after the loop, and the resolved files are all
\* staged.
C20_WriteAndStageFailuresNotFatal ==
  [][/\ (pc = "loop" /\ opts.entry = "cli") => pc' \in {"loop", "interactive"}
     /\ (pc = "loop" /\ pc' = "loop") => (idx' = idx + 1 /\ writeFailures' \subseteq filesOf(result'.failedFiles))
     /\ (leavingLoop /\ stagingDue) => filesOf(result.resolvedFiles) \subseteq staged']_vars

\* the part of C20 about writes: the failure is recorded and the loop goes
\* on
WriteFailureRecordedLoopContinues ==
  [][(pc = "loop" /\ pc' = "loop") =>
       (idx' = idx + 1 /\ writeFailures' \subseteq filesOf(result'.failedFiles))]_vars

\* a write failed for the first conflict and the second was resolved
WriteFailedThenNextResolved ==
  /\ Len(result.errors) = 1
  /\ result.errors[1].cause = "write"
  /\ Len(result.resolvedFiles) = 1
  /\ result.failedFiles = <<conflicts[1].file>>
  /\ result.resolvedFiles = <<conflicts[2].file>>

(***************************************************************************)
(* The aggregate result                                                    *)
(***************************************************************************)

\* C12: at every point of a run, and in the returned result, success is
\* false exactly when failedFiles is non-empty.
C12_SuccessIffNoFailedFile ==
  result.success <=> (result.failedFiles = <<>>)

\* a returned result with success = false in which an earlier conflict
\* failed and a later one was resolved
FailureThenResolutionReturned ==
  /\ pc = "returned"
  /\ ~result.success
  /\ Len(result.failedFiles) = 1
  /\ Len(result.resolvedFiles) = 1
  /\ result.failedFiles[1] = conflicts[1].file

(***************************************************************************)
(* The plugin registry                                                     *)
(***************************************************************************)
\* the names the host or the builtin initialization has registered
namesOf(reg) == {reg[n].name : n \in 1..Len(reg)}

\* the position of the last register call for a name in the log, 0 if none
lastRegistration(name) ==
  LET calls == {n \in callsOf("register") : events[n].plugin.name = name}
  IN IF calls = {} THEN 0 ELSE CHOOSE n \in calls : \A k \in calls : k <= n

onePerName(list) ==
  \A j, k \in 1..Len(list) : list[j].name = list[k].name => j = k

sortedByPriority(list) ==
  \A j, k \in 1..Len(list) : j < k => priorityOf(list[j]) <= priorityOf(list[k])

\* plugins of equal priority that the host registered stand in the order
\* of their last registration
tiesInLastRegistrationOrder(list) ==
  \A j, k \in 1..Len(list) :
    (/\ j < k
     /\ priorityOf(list[j]) = priorityOf(list[k])
     /\ lastRegistration(list[j].name) > 0
     /\ lastRegistration(list[k].name) > 0)
    => lastRegistration(list[j].name) < lastRegistration(list[k].name)

\* C13: after any sequence of register calls the ordered view holds one
\* plugin per registered name, ascending by priority (unset counted as
\* 100), and plugins of equal priority in the order of their last
\* registration.
C13_OrderedViewOnePerNameSortedLastOrder ==
  /\ namesOf(getConflictResolutionPlugins(registry)) = namesOf(registry)
  /\ onePerName(getConflictResolutionPlugins(registry))
  /\ sortedByPriority(getConflictResolutionPlugins(registry))
  /\ tiesInLastRegistrationOrder(getConflictResolutionPlugins(registry))

\* the parts of C13 that do not depend on which registration of a name
\* fixes its place
OrderedViewOnePerNameSorted ==
  /\ namesOf(getConflictResolutionPlugins(registry)) = namesOf(registry)
  /\ onePerName(getConflictResolutionPlugins(registry))
  /\ sortedByPriority(getConflictResolutionPlugins(registry))

\* the plugins the host registered and did not register again under the
\* same name later
hostPlugins ==
  {events[n].plugin : n \in {k \in callsOf("register") : lastRegistration(events[k].plugin.name) = k}}

elementsOf(list) == {list[n] : n \in 1..Len(list)}

\* C14: the ordered list a run obtains holds every plugin the host has
\* registered so far, as registered, whether the registration came before
\* or after the first construction and whatever the plugin's name.
C14_RunSeesEveryRegisteredPlugin ==
  [][RegistryGet => hostPlugins \subseteq elementsOf(pluginList')]_vars

\* the same for the plugins registered under names no builtin has
isBuiltinName(name) == \E n \in 1..Len(builtinPlugins) : builtinPlugins[n].name = name

RunSeesEveryOtherNamedPlugin ==
  [][RegistryGet => {p \in hostPlugins : ~isBuiltinName(p.name)} \subseteq elementsOf(pluginList')]_vars

\* the step is a construction: the log grows by a construct call
constructing ==
  /\ Len(events') = Len(events) + 1
  /\ events'[Len(events')].op = "construct"

\* C15: the first construction puts the three builtins into the registry
\* and leaves every plugin of another name in place; every later
\* construction leaves the registry, with whatever was registered in
\* between, unchanged.
C15_BuiltinInitializationIdempotent ==
  [][constructing =>
       /\ callsOf("construct") # {} => registry' = registry
       /\ callsOf("construct") = {} =>
            /\ elementsOf(builtinPlugins) \subseteq elementsOf(registry')
            /\ {p \in elementsOf(registry) : ~isBuiltinName(p.name)} \subseteq elementsOf(registry')
            /\ namesOf(registry') = namesOf(registry) \cup namesOf(builtinPlugins)
            /\ onePerName(registry')]_vars

\* a second construction after a plugin was registered under a builtin's
\* name between the two: the registry still holds the host's plugin
SecondConstructionKeepsOverride ==
  /\ Len(events) = 3
  /\ events[1].op = "construct"
  /\ events[2].op = "register"
  /\ events[2].plugin.name = whitespacePlugin.name
  /\ events[3].op = "construct"
  /\ Len(registry) = 3
  /\ registry[1] = events[2].plugin

(***************************************************************************)
(* Classification of an analysed file                                      *)
(***************************************************************************)
analysed == output.value

\* C16: autoResolvable is true exactly when the complexity is trivial or
\* simple and the type is whitespace, import or structural, or the type is
\* content, the complexity is not complex and every hunk passes the
\* simple-content test.
C16_AutoResolvableByTypeAndComplexity ==
  output.done =>
    (analysed.autoResolvable <=>
       \/ /\ analysed.complexity \in {"trivial", "simple"}
          /\ analysed.type \in {"whitespace", "import", "structural"}
       \/ /\ analysed.type = "content"
          /\ analysed.complexity # "complex"
          /\ \A k \in 1..Len(analysed.hunks) : isSimpleContentPattern(analysed.hunks[k]))

\* a simple structural conflict, auto-resolvable
SimpleStructuralAutoResolvable ==
  /\ output.done
  /\ analysed.type = "structural"
  /\ analysed.complexity = "simple"
  /\ analysed.autoResolvable

hasImportSyntax(content) ==
  includes(content, <<"import", SP>>) \/ includes(content, <<"require", "(">>)

hasDeclarationSyntax(content) ==
  includes(content, <<"class", SP>>) \/ includes(content, <<"function", SP>>) \/
  includes(content, <<"interface", SP>>)

\* every parsed hunk's sides are equal after collapsing whitespace runs to
\* one space and trimming
hunksWhitespaceEquivalent(hunks) ==
  /\ Len(hunks) > 0
  /\ \A k \in 1..Len(hunks) :
       trim(collapseWhitespace(hunks[k].currentContent)) =
       trim(collapseWhitespace(hunks[k].incomingContent))

\* C17: the type is import if the content has import/require syntax, else
\* whitespace if every parsed hunk is whitespace-equivalent, else structural
\* if the content has declaration syntax, else content; so a file without
\* import/require syntax whose hunks are all whitespace-equivalent is typed
\* whitespace.
C17_TypeByPrecedenceOverHunks ==
  output.done =>
    analysed.type =
      IF hasImportSyntax(input) THEN "import"
      ELSE IF hunksWhitespaceEquivalent(analysed.hunks) THEN "whitespace"
      ELSE IF hasDeclarationSyntax(input) THEN "structural"
      ELSE "content"

\* the import test comes first and the declaration test before the default
ImportFirstDeclarationBeforeContent ==
  output.done =>
    /\ hasImportSyntax(input) <=> analysed.type = "import"
    /\ analysed.type = "structural" => hasDeclarationSyntax(input)
    /\ analysed.type = "content" => ~hasDeclarationSyntax(input)

\* the file that ends at its end marker, without a final line break
WhitespaceConflictWithoutFinalLineBreak ==
  regionOf(<<"a", SP, "b">>, <<"a", SP, SP, "b">>)

FileWithoutFinalLineBreakTypedWhitespace ==
  (output.done /\ input = WhitespaceConflictWithoutFinalLineBreak) => analysed.type = "whitespace"

\* the file whose current side has no line and whose incoming side is one
\* blank line, with its final line break
BlankLineAgainstNothing == regionWithoutCurrent(<<>>) \o <<NL>>

BlankLineAgainstNothingTypedWhitespace ==
  (output.done /\ input = BlankLineAgainstNothing) =>
    (hunksWhitespaceEquivalent(analysed.hunks) => analysed.type = "whitespace")

\* the number of lines of a side: the pieces between its line breaks
lineCount(side) == Len(splitLines(side))

largerOf(m, n) == IF m >= n THEN m ELSE n

sidesWhitespaceEquivalent(hunk) ==
  trim(collapseWhitespace(hunk.currentContent)) = trim(collapseWhitespace(hunk.incomingContent))

\* the complexity of a hunk as the thresholds give it for a line count
complexityFor(hunk, lines) ==
  IF lines <= 1 \/ sidesWhitespaceEquivalent(hunk) THEN "trivial"
  ELSE IF lines <= 5 /\ ~hasComplexLogic(hunk.currentContent) /\ ~hasComplexLogic(hunk.incomingContent)
  THEN "simple"
  ELSE IF lines <= 20 THEN "moderate"
  ELSE "complex"

complexityRank(c) ==
  CASE c = "trivial" -> 1 [] c = "simple" -> 2 [] c = "moderate" -> 3 [] c = "complex" -> 4

\* the line count of a hunk read as the lines of both sides together
linesInTotal(hunk) == lineCount(hunk.currentContent) + lineCount(hunk.incomingContent)

\* the line count of a hunk read as the lines of its longer side
linesOfLongerSide(hunk) == largerOf(lineCount(hunk.currentContent), lineCount(hunk.incomingContent))

\* the overall complexity is the greatest of the hunks' complexities
isMaximumOver(overall, ranks) ==
  /\ overall \in ranks
  /\ \A r \in ranks : r <= overall

\* C18: a hunk is trivial if its total line count, the lines of its two
\* sides together, is at most 1 or its sides are whitespace-equivalent,
\* else simple if the count is at most 5 and neither side has complex
\* logic, else moderate if the count is at most 20, else complex; the
\* conflict's complexity is the maximum over its hunks.
C18_ComplexityByTotalLineCount ==
  (output.done /\ Len(analysed.hunks) > 0) =>
    isMaximumOver(complexityRank(analysed.complexity),
                  {complexityRank(complexityFor(analysed.hunks[k], linesInTotal(analysed.hunks[k]))) :
                     k \in 1..Len(analysed.hunks)})

\* C18, amended: the line count of a hunk is that of its longer side.
C18_ComplexityByLongerSide ==
  (output.done /\ Len(analysed.hunks) > 0) =>
    isMaximumOver(complexityRank(analysed.complexity),
                  {complexityRank(complexityFor(analysed.hunks[k], linesOfLongerSide(analysed.hunks[k]))) :
                     k \in 1..Len(analysed.hunks)})

\* a conflict of two hunks, one trivial and one complex by a side of more
\* than 20 lines, is complex
TrivialAndComplexHunkGiveComplex ==
  /\ output.done
  /\ Len(analysed.hunks) = 2
  /\ analyzeConflictComplexity(analysed.hunks[1].currentContent,
                               analysed.hunks[1].incomingContent) = "trivial"
  /\ lineCount(analysed.hunks[2].incomingContent) > 20
  /\ analysed.complexity = "complex"

(***************************************************************************)
(* The fix command: setup failures, staging and interactive choices        *)
(***************************************************************************)
\* the checkpoint was wanted and the branch was not checked out
checkpointFailed ==
  /\ opts.entry = "cli"
  /\ checkpointFirst(opts)
  /\ \A n \in 1..Len(events) : events[n].op # "checkpoint"

\* every file of the tree still holds one of the conflicted texts
treeUntouched == \A f \in DOMAIN disk : disk[f] \in SampleTexts[f]

\* C21: in a fix that is not a dry run, a failure to create the checkpoint
\* branch ends the command with the error at once: the step on which the
\* checkout fails leads to the error exit, and at that exit no conflict
\* file has been written and no file has been staged.
C21_CheckpointFailureAbortsBeforeMutation ==
  [][/\ (pc = "plan" /\ checkpointFirst(opts) /\ branch' = branch) => pc' = "exit1"
     /\ (pc' = "exit1" /\ checkpointFailed') =>
          (events' = <<>> /\ staged' = {} /\ treeUntouched' /\ branch' = MainBranch)
     /\ (pc # "plan" /\ checkpointFailed) => pc \in {"fix", "exit1", "done"}]_vars

\* the command ended at the error exit on a tree of two conflicts, the
\* checkpoint branch not created
ExitAfterFailedCheckpoint ==
  /\ pc = "exit1"
  /\ checkpointFailed
  /\ Len(conflicted) = 2
  /\ Len(conflicts) > 0
  /\ branch = MainBranch

\* the files the resolver loop has written
writtenByResolver ==
  {events[n].file : n \in {k \in 1..Len(events) : events[k].op = "write" /\
                                                   events[k].by \in {"plugin", "fallback"}}}

\* the files under "Auto-resolved files": handleAutoResolution lists
\* result.resolvedFiles when result.success holds and the list is not empty
listedAsResolved ==
  IF result.success /\ Len(result.resolvedFiles) > 0 THEN filesOf(result.resolvedFiles) ELSE {}

automaticFixEnded == opts.entry = "cli" /\ ~dryRunOf(opts) /\ pc = "done"

\* C26: when an automatic fix that is not a dry run has ended, every file
\* the resolver wrote has been staged and listed to the user, also when
\* another conflict of the run failed.
C26_WrittenFilesStagedAndListed ==
  automaticFixEnded =>
    \A f \in writtenByResolver : f \in staged /\ f \in listedAsResolved

\* the same for the runs in which no conflict failed
WrittenFilesStagedWhenAllResolved ==
  (automaticFixEnded /\ result.success) =>
    \A f \in writtenByResolver : f \in staged /\ f \in listedAsResolved

\* a run that wrote one file, failed on another and has ended
WroteOneFailedAnother ==
  /\ automaticFixEnded
  /\ Len(result.failedFiles) = 1
  /\ Len(result.resolvedFiles) = 1
  /\ filesOf(result.resolvedFiles) \subseteq writtenByResolver

\* in such a run the written file is in the index
WrittenFileStagedDespiteFailure ==
  WroteOneFailedAnother => filesOf(result.resolvedFiles) \subseteq staged

sideOfHunk(hunk, version) ==
  IF version = "current" THEN hunk.currentContent ELSE hunk.incomingContent

RECURSIVE withSpansReplaced(_, _, _, _)
\* content with the marker span of hunk k, k + 1, ... replaced by that
\* hunk's side, the spans taken in the order of the file
withSpansReplaced(content, hunks, k, version) ==
  IF k > Len(hunks) THEN content
  ELSE IF ~findConflictSpan(content, hunks[k].conflictMarkers.start,
                            hunks[k].conflictMarkers.end).found
  THEN content
  ELSE SubSeq(content, 1,
              findConflictSpan(content, hunks[k].conflictMarkers.start,
                               hunks[k].conflictMarkers.end).from - 1)
       \o sideOfHunk(hunks[k], version)
       \o withSpansReplaced(
            SubSeq(content,
                   findConflictSpan(content, hunks[k].conflictMarkers.start,
                                    hunks[k].conflictMarkers.end).to + 1,
                   Len(content)),
            hunks, k + 1, version)

\* the step is an interactive accept that writes the file of the conflict
interactiveWrite(version) ==
  /\ pc = "interactive"
  /\ idx' = idx + 1
  /\ \E n \in (Len(events) + 1)..Len(events') :
       events'[n] = [op |-> "write", file |-> manualReview[idx].file, by |-> version]

\* C29: interactive accept-current or accept-incoming writes the original
\* with the marker span of every hunk replaced by that same hunk's chosen
\* side.
C29_AcceptReplacesEachHunkWithItsSide ==
  [][\A version \in {"current", "incoming"} :
       interactiveWrite(version) =>
         disk'[manualReview[idx].file] =
           withSpansReplaced(disk[manualReview[idx].file], manualReview[idx].hunks, 1, version)]_vars

\* the same for the conflicts of one hunk
AcceptReplacesTheOnlyHunk ==
  [][\A version \in {"current", "incoming"} :
       (interactiveWrite(version) /\ Len(manualReview[idx].hunks) = 1) =>
         disk'[manualReview[idx].file] =
           withSpansReplaced(disk[manualReview[idx].file], manualReview[idx].hunks, 1, version)]_vars

\* after accept-current on the file of two hunks, the file holds the
\* current side of the second hunk
SecondHunkKeepsItsCurrentSide ==
  \A n \in 1..Len(events) :
    (events[n] = [op |-> "write", file |-> "a.ts", by |-> "current"] /\
     \E m \in 1..Len(manualReview) :
       manualReview[m].file = "a.ts" /\ Len(manualReview[m].hunks) = 2 /\ pc = "done")
      => includes(disk["a.ts"], <<NL, "c", NL>>)

(***************************************************************************)
(* The per-hunk merges                                                     *)
(***************************************************************************)
replaced(text) == [ok |-> TRUE, text |-> text]

noReplacement == [ok |-> FALSE, text |-> <<>>]

\* the decision list of the simple-content replacement; equalAfterWhitespace
\* is the outcome of its whitespace test on the trimmed sides
decisionList(hunk, c, i, equalAfterWhitespace) ==
  IF c = <<>> /\ i = <<>> THEN replaced(<<>>)
  ELSE IF c = <<>> THEN replaced(hunk.incomingContent)
  ELSE IF i = <<>> THEN replaced(hunk.currentContent)
  ELSE IF c = i THEN replaced(hunk.currentContent)
  ELSE IF equalAfterWhitespace THEN replaced(normalizeWhitespace(hunk.currentContent))
  ELSE IF isSubsetLines(splitLines(hunk.currentContent), splitLines(hunk.incomingContent))
  THEN replaced(hunk.incomingContent)
  ELSE IF isSubsetLines(splitLines(hunk.incomingContent), splitLines(hunk.currentContent))
  THEN replaced(hunk.currentContent)
  ELSE IF isLikelyList(splitLines(hunk.currentContent)) /\ isLikelyList(splitLines(hunk.incomingContent))
  THEN replaced(mergeListLines(splitLines(hunk.currentContent), splitLines(hunk.incomingContent)))
  ELSE IF isKeyValueBlock(splitLines(hunk.currentContent)) /\
          isKeyValueBlock(splitLines(hunk.incomingContent))
  THEN mergeKeyValueLines(splitLines(hunk.currentContent), splitLines(hunk.incomingContent))
  ELSE noReplacement

contentDone == output.done /\ output.op = "content"

\* C22: the replacement follows the ordered list: both sides empty, one
\* side empty, equal after trim, equal after collapsing runs of whitespace
\* to one space (normalized current), subset of lines either way, list
\* merge, key-value merge, otherwise none.
C22_ReplacementByDecisionList ==
  contentDone =>
    output.value =
      decisionList(input, trim(input.currentContent), trim(input.incomingContent),
                   collapseWhitespace(trim(input.currentContent)) =
                   collapseWhitespace(trim(input.incomingContent)))

\* the list with the whitespace test the plugin makes: tabs expanded, line
\* ends stripped, runs of blank lines collapsed
ReplacementByDecisionListOfPlugin ==
  contentDone =>
    output.value =
      decisionList(input, trim(input.currentContent), trim(input.incomingContent),
                   normalizeWhitespace(trim(input.currentContent)) =
                   normalizeWhitespace(trim(input.incomingContent)))

\* the hunk "a  b" against "a b"
DoubleSpaceHunk == [currentContent |-> <<"a", SP, SP, "b">>, incomingContent |-> <<"a", SP, "b">>]

DoubleSpaceHunkReplaced == (contentDone /\ input = DoubleSpaceHunk) => output.value.ok

\* the non-blank lines of a block
entryLines(lines) == SelectSeq(lines, LAMBDA l : trim(l) # <<>>)

\* the keys of the entries of a block, in order, repeated keys included
keysOf(lines) == [n \in 1..Len(entryLines(lines)) |-> parseKeyValueLine(entryLines(lines)[n]).key]

\* the values given to a key in a block
valuesOf(lines, key) ==
  {parseKeyValueLine(entryLines(lines)[n]).value :
     n \in {k \in 1..Len(entryLines(lines)) : keysOf(lines)[k] = key}}

RECURSIVE firstOccurrences(_, _)
\* the sequence without the later occurrences of its elements
firstOccurrences(s, kept) ==
  IF Len(s) = 0 THEN kept
  ELSE IF \E n \in 1..Len(kept) : kept[n] = s[1] THEN firstOccurrences(Tail(s), kept)
  ELSE firstOccurrences(Tail(s), Append(kept, s[1]))

\* some value of the two blocks is quoted
anyValueQuoted(currentLines, incomingLines) ==
  \E l \in elementsOf(entryLines(currentLines)) \cup elementsOf(entryLines(incomingLines)) :
    includes(parseKeyValueLine(l).value, <<"\"">>)

endsWithCommaLine(line) == Len(line) > 0 /\ line[Len(line)] = ","

commasNormalized(merged) ==
  \A n \in 1..Len(merged) : endsWithCommaLine(merged[n]) <=> n < Len(merged)

\* the merged block mergedLines against the two blocks it was made from
keyValueMerged(currentLines, incomingLines, mergedLines) ==
  /\ keysOf(mergedLines) = firstOccurrences(keysOf(currentLines) \o keysOf(incomingLines), <<>>)
  /\ \A n \in 1..Len(keysOf(mergedLines)) :
       LET key == keysOf(mergedLines)[n]
           value == parseKeyValueLine(entryLines(mergedLines)[n]).value
       IN IF valuesOf(incomingLines, key) # {} THEN value \in valuesOf(incomingLines, key)
          ELSE value \in valuesOf(currentLines, key)
  /\ anyValueQuoted(currentLines, incomingLines) => commasNormalized(entryLines(mergedLines))

keyValueDone == output.done /\ output.op = "keyvalue" /\ output.value.ok

KeyValueMergeOrderAndValues ==
  keyValueDone =>
    /\ keysOf(splitLines(output.value.text)) =
         firstOccurrences(keysOf(splitLines(input.currentContent)) \o
                          keysOf(splitLines(input.incomingContent)), <<>>)
    /\ \A n \in 1..Len(keysOf(splitLines(output.value.text))) :
         LET key == keysOf(splitLines(output.value.text))[n]
             value == parseKeyValueLine(entryLines(splitLines(output.value.text))[n]).value
         IN IF valuesOf(splitLines(input.incomingContent), key) # {}
            THEN value \in valuesOf(splitLines(input.incomingContent), key)
            ELSE value \in valuesOf(splitLines(input.currentContent), key)

\* the example: a: 1, b: 2, against b: 3, c: 1, gives the keys a, b, c
\* with b: 3
KeyValueExampleMerged ==
  (keyValueDone
   /\ input.currentContent = <<"a", ":", SP, "1", ",", NL, "b", ":", SP, "2", ",">>
   /\ input.incomingContent = <<"b", ":", SP, "3", ",", NL, "c", ":", SP, "1", ",">>)
  => output.value.text =
       <<"a", ":", SP, "1", ",", NL, "b", ":", SP, "3", ",", NL, "c", ":", SP, "1", ",">>

\* some entry of the block has its key in double quotes
anyKeyQuoted(lines) ==
  \E l \in elementsOf(entryLines(lines)) : includes(parseKeyValueLine(l).prefix, <<"\"">>)

importDone == output.done /\ output.op = "import"

\* the lines of a replacement: none for the empty replacement
replacementLines(text) == IF text = <<>> THEN <<>> ELSE splitLines(text)

\* a line that begins with the import keyword or with a require( call
beginsImportOrRequire(line) ==
  \/ startsWith(trim(line), <<"import">>)
  \/ startsWith(trim(line), <<"require", "(">>)

\* a line that is an import or require line: it begins with one, or binds
\* the result of a require( call
isImportOrRequireLine(line) ==
  \/ beginsImportOrRequire(line)
  \/ (startsWith(trim(line), <<"const", SP>>) /\ includes(line, <<"require", "(">>))

sameImport(a, b) == trim(collapseWhitespace(a)) = trim(collapseWhitespace(b))

\* the import and require lines of both sides, current before incoming
importLinesOfSides(hunk, wanted(_)) ==
  LET all == splitLines(hunk.currentContent) \o splitLines(hunk.incomingContent)
  IN {trim(all[n]) : n \in {k \in 1..Len(all) : wanted(all[k])}}

firstOccurrenceKept(hunk, merged) ==
  LET all == splitLines(hunk.currentContent) \o splitLines(hunk.incomingContent)
  IN \A n \in 1..Len(merged) :
       \E k \in 1..Len(all) :
         /\ trim(all[k]) = merged[n]
         /\ \A j \in 1..(k - 1) : ~sameImport(all[j], all[k])

externalsFirstThenLexicographic(merged) ==
  \A m, n \in 1..Len(merged) :
    m < n =>
      /\ ~(isExternalImport(merged[n]) /\ ~isExternalImport(merged[m]))
      /\ isExternalImport(merged[m]) = isExternalImport(merged[n])
           => ~localeLess(merged[n], merged[m])

importsMerged(hunk, merged, wanted(_)) ==
  /\ \A l \in importLinesOfSides(hunk, wanted) :
       \E n \in 1..Len(merged) : sameImport(merged[n], l)
  /\ \A m, n \in 1..Len(merged) : m # n => ~sameImport(merged[m], merged[n])
  /\ \A n \in 1..Len(merged) : isImportOrRequireLine(merged[n])
  /\ firstOccurrenceKept(hunk, merged)
  /\ externalsFirstThenLexicographic(merged)

\* C24: import-merge outputs every import or require line of either side
\* once up to whitespace, the first occurrence kept and current before
\* incoming, externals before relative imports and each group in
\* lexicographic order; no line that begins with the import keyword or with a
\* require( call is lost.
C24_ImportMergeKeepsEveryImportLine ==
  importDone =>
    /\ importsMerged(input, replacementLines(output.value), isImportOrRequireLine)
    /\ \A l \in importLinesOfSides(input, beginsImportOrRequire) :
         \E n \in 1..Len(replacementLines(output.value)) :
           sameImport(replacementLines(output.value)[n], l)

\* the same for the lines extractImports recognises: those that start with
\* "import " or start with "const " and contain "require("
ImportMergeKeepsRecognisedLines ==
  importDone => importsMerged(input, replacementLines(output.value), isImportLine)

\* a side whose only line is a bare require( call, against an import
BareRequireHunk ==
  /\ input.currentContent = <<"require", "(", "b", ")">>
  /\ input.incomingContent = <<"import", SP, "a">>

\* the bare require( call is in the replacement
BareRequireKept ==
  (importDone /\ BareRequireHunk) =>
    \E n \in 1..Len(replacementLines(output.value)) :
      replacementLines(output.value)[n] = <<"require", "(", "b", ")">>

(***************************************************************************)
(* Claims about the analyzer and the plugins together                      *)
(***************************************************************************)
everyHunkHasReplacement(conflict) ==
  \A k \in 1..Len(conflict.hunks) : computeContentReplacement(conflict.hunks[k]).ok

\* C25: for a CONTENT conflict that is not complex, every hunk passes the
\* analyzer's simple-content-pattern test exactly when the plugin computes a
\* replacement for every hunk, and a conflict flagged autoResolvable is
\* supported by simple-content-merge, so it never reaches the fallback.
C25_AnalyzerAndPluginAgree ==
  (output.done /\ analysed.type = "content" /\ analysed.complexity # "complex") =>
    /\ canAutoResolveContent(analysed.hunks) <=> everyHunkHasReplacement(analysed)
    /\ analysed.autoResolvable =>
         supports(simpleContentPlugin, analysed)

\* one direction: a replacement for every hunk means every hunk passes the
\* analyzer's test
ReplacementImpliesSimplePattern ==
  (output.done /\ analysed.type = "content" /\ analysed.complexity # "complex") =>
    (everyHunkHasReplacement(analysed) => canAutoResolveContent(analysed.hunks))

\* a file of one region whose sides differ by a doubled space, without a
\* final line break
DoubledSpaceContentFile ==
  input = regionOf(<<"a", SP, "b">>, <<"a", SP, SP, "b">>)

\* that file is typed CONTENT and flagged autoResolvable
DoubledSpaceFileFlagged ==
  /\ output.done
  /\ DoubledSpaceContentFile
  /\ analysed.type = "content"
  /\ analysed.autoResolvable

\* simple-content-merge computes a replacement for it
DoubledSpaceFileSupported ==
  (output.done /\ DoubledSpaceContentFile) => everyHunkHasReplacement(analysed)

(***************************************************************************)
(* Claims about the spans the resolution replaces                          *)
(***************************************************************************)
spanFound(content, hunk) ==
  findConflictSpan(content, hunk.conflictMarkers.start, hunk.conflictMarkers.end).found

\* the step is one iteration of the loop and it reports the conflict's file
\* as resolved
reportsResolved ==
  /\ pc = "loop"
  /\ idx <= Len(conflicts)
  /\ idx' = idx + 1
  /\ Len(result'.resolvedFiles) = Len(result.resolvedFiles) + 1

builtinOrFallback ==
  \/ Len(result'.fallbackApplied) > Len(result.fallbackApplied)
  \/ last(result'.resolvedBy).plugin \in {builtinPlugins[j].name : j \in 1..Len(builtinPlugins)}

\* C27: a conflict is reported in resolvedFiles only if the span of every
\* one of its hunks was found in the content read at resolution time, and
\* the content written, if any, holds no span of the conflict's hunks: a file that
\* changed since the analysis, or markers that match no span, leave the
\* conflict unreported.
C27_ResolvedOnlyIfEverySpanReplaced ==
  [][(reportsResolved /\ builtinOrFallback) =>
       /\ \A k \in 1..Len(conflicts[idx].hunks) :
            spanFound(disk[conflicts[idx].file], conflicts[idx].hunks[k])
       /\ Len(events') > Len(events) =>
            \A k \in 1..Len(conflicts[idx].hunks) :
              ~spanFound(disk'[conflicts[idx].file], conflicts[idx].hunks[k])]_vars

\* the same on an iteration before which no other process wrote to the tree
ResolvedOnlyIfEverySpanReplacedUnmodified ==
  [][(reportsResolved /\ builtinOrFallback /\ ~modified) =>
       /\ \A k \in 1..Len(conflicts[idx].hunks) :
            spanFound(disk[conflicts[idx].file], conflicts[idx].hunks[k])
       /\ Len(events') > Len(events) =>
            \A k \in 1..Len(conflicts[idx].hunks) :
              ~spanFound(disk'[conflicts[idx].file], conflicts[idx].hunks[k])]_vars

\* a file merged by hand after the analysis is not reported as resolved
MergedByHandNotReported ==
  \A n \in 1..Len(events) :
    (events[n].op = "modify" /\ disk[events[n].file] = TextMerged /\ pc = "returned")
      => events[n].file \notin filesOf(result.resolvedFiles)

(***************************************************************************)
(* Claims about the IMPORT type and import-merge                           *)
(***************************************************************************)
hasImportOrRequireLine(hunk) ==
  \E l \in elementsOf(splitLines(hunk.currentContent) \o splitLines(hunk.incomingContent)) :
    isImportOrRequireLine(l)

isBlankSide(content) == trim(content) = <<>>

\* C28: a conflict is typed IMPORT only if one of its hunks has an import
\* or require line on some side, and the replacement import-merge computes
\* for a hunk with a non-blank side is never the empty string.
C28_ImportTypeNeedsImportLineInHunk ==
  (output.done /\ analysed.type = "import") =>
    /\ \E k \in 1..Len(analysed.hunks) : hasImportOrRequireLine(analysed.hunks[k])
    /\ \A k \in 1..Len(analysed.hunks) :
         (~isBlankSide(analysed.hunks[k].currentContent) \/
          ~isBlankSide(analysed.hunks[k].incomingContent))
           => importReplacement(analysed.hunks[k]) # <<>>

\* the same for the files whose every hunk has an import line on some side
ImportHunksNeverEmptied ==
  (output.done /\ analysed.type = "import") =>
    \A k \in 1..Len(analysed.hunks) :
      hasImportOrRequireLine(analysed.hunks[k]) => importReplacement(analysed.hunks[k]) # <<>>

\* a file whose import statement stands before its only conflict region
ImportAboveRegion ==
  input = <<"import", SP, "x", NL>> \o regionOf(<<"a">>, <<"b">>) \o <<NL>>

\* that file is typed IMPORT
ImportAboveRegionTypedImport ==
  output.done /\ ImportAboveRegion /\ analysed.type = "import"

\* its region is not replaced by the empty string
ImportAboveRegionKeepsSides ==
  (output.done /\ ImportAboveRegion) => importReplacement(analysed.hunks[1]) # <<>>

(***************************************************************************)
(* Claims about a plugin whose resolve raises                              *)
(***************************************************************************)
readOutcome(ok) == [ok |-> ok, content |-> disk[conflicts[idx].file]]

\* resolve of some supporting plugin raises for the conflict at hand,
\* whatever the read gives
resolveRaises ==
  \A readOk \in BOOLEAN :
    runPlugins(conflicts[idx], pluginList, readOutcome(readOk)).kind = "throws"

\* the iteration at hand when readFile and writeResolvedFile end as given
iterationWith(readOk, writeOk) ==
  resolveConflict(result, conflicts[idx], pluginList, dryRunOf(opts), fallbackOf(opts),
                  readOutcome(readOk), writeOk)

loopIteration == pc = "loop" /\ idx <= Len(conflicts) /\ idx' = idx + 1

\* the files whose failure is not that of the write
failedNotByWrite ==
  {result.errors[n].file : n \in {k \in 1..Len(result.errors) : result.errors[k].cause # "write"}}

writtenFiles == {events[n].file : n \in {k \in 1..Len(events) : events[k].op = "write"}}

\* the iteration neither ran the fallback nor wrote, and its result is the
\* one before it with the failure entry of what was raised
onlyFailureRecorded(step) ==
  \E cause \in {"plugin", "read"} :
    step = iteration(recordFailure(result, conflicts[idx].file, cause), FALSE, <<>>,
                     step.calls, FALSE)

\* C30: when a plugin's resolve raises for a conflict, the file stays as it
\* is on disk, no fallback strategy is applied and the conflict gets no
\* resolvedBy, fallbackApplied or warning entry, only its failure entry; and
\* a file that failed for another reason than its write was never written
\* during the run.
C30_PluginErrorLeavesFileUntouched ==
  [][/\ loopIteration =>
          \A readOk \in BOOLEAN :
            runPlugins(conflicts[idx], pluginList, readOutcome(readOk)).kind = "throws" =>
              \A writeOk \in BOOLEAN : onlyFailureRecorded(iterationWith(readOk, writeOk))
     /\ (loopIteration /\ resolveRaises) =>
          /\ disk' = disk
          /\ events' = events
          /\ result'.failedFiles = Append(result.failedFiles, conflicts[idx].file)
          /\ result'.resolvedFiles = result.resolvedFiles
          /\ result'.resolvedBy = result.resolvedBy
          /\ result'.fallbackApplied = result.fallbackApplied
          /\ result'.warnings = result.warnings
     /\ failedNotByWrite' \cap writtenFiles' = {}]_vars

\* a run outside a dry run and with a fallback strategy, in which a
\* plugin's resolve raised for one file and the other file was written
PluginRaisedOtherFileWritten ==
  /\ pc = "returned"
  /\ ~dryRunOf(opts)
  /\ fallbackOf(opts) # "none"
  /\ \E n \in 1..Len(result.errors) : result.errors[n].cause = "plugin"
  /\ writtenFiles # {}
  /\ failedNotByWrite # {}
====
